---- MODULE Spec2Model ----
(***************************************************************************)
(* Model of the tf-deployer server: the deploy request handler, the        *)
(* provisioning process chain (init / console / apply / destroy), the      *)
(* socket.io rooms of the streaming channel, and the two pure functions    *)
(* that split user-submitted variables between terraform.tfvars and the    *)
(* TF_VAR_ environment.                                                    *)
(*                                                                         *)
(* JavaScript values are records of one shape and text is a string built   *)
(* character by character, so that formatting is something a check can    *)
(* refute.                                                                 *)
(***************************************************************************)
EXTENDS Integers, Sequences, FiniteSets, TLC

\* ------------------------------------------------------------------ bounds

\* Number of variable names a request may submit.
NumVars == 2

\* ------------------------------------------------------- JavaScript values

\* A scalar: undefined, null, a boolean, a number or a string.
Scalar(kind, b, n, s) == [k |-> kind, b |-> b, n |-> n, s |-> s]
SUndef   == Scalar("undef", FALSE, 0, "")
SNull    == Scalar("null", FALSE, 0, "")
SBool(x) == Scalar("bool", x, 0, "")
SNum(x)  == Scalar("num", FALSE, x, "")
SStr(x)  == Scalar("str", FALSE, 0, x)

\* A value: a scalar, an array of scalars ("arr"), a plain object of scalars
\* ("map"), or the {value, sensitive} object the API also accepts ("wrap").
Lift(sc) ==
    [k |-> sc.k, b |-> sc.b, n |-> sc.n, s |-> sc.s, items |-> <<>>,
     entries |-> <<>>, value |-> SUndef, sensitive |-> SUndef]
VArr(items) == [Lift(SUndef) EXCEPT !.k = "arr", !.items = items]
VMap(entries) == [Lift(SUndef) EXCEPT !.k = "map", !.entries = entries]
VWrap(value, sensitive) ==
    [Lift(SUndef) EXCEPT !.k = "wrap", !.value = value, !.sensitive = sensitive]
Lower(v) == Scalar(v.k, v.b, v.n, v.s)
IsScalar(v) == v.k \in {"undef", "null", "bool", "num", "str"}

\* typeof v === 'object' (null included, as in JavaScript).
IsObject(v) == v.k \in {"null", "arr", "map", "wrap"}
\* !v is false.
Truthy(v) ==
    CASE v.k \in {"undef", "null"} -> FALSE
      [] v.k = "bool" -> v.b
      [] v.k = "num" -> v.n # 0
      [] v.k = "str" -> v.s # ""
      [] OTHER -> TRUE
\* v.value and v.sensitive; a primitive, an array and a plain object have none.
FieldValue(v) == IF v.k = "wrap" THEN Lift(v.value) ELSE Lift(SUndef)
FieldSensitive(v) == IF v.k = "wrap" THEN Lift(v.sensitive) ELSE Lift(SUndef)
\* Object.entries(v) of an object: its own fields that are present.
EntriesOf(v) ==
    IF v.k = "map" THEN v.entries
    ELSE (IF v.value.k = "undef" THEN <<>>
          ELSE <<[key |-> "value", val |-> v.value]>>)
         \o (IF v.sensitive.k = "undef" THEN <<>>
             ELSE <<[key |-> "sensitive", val |-> v.sensitive]>>)

\* ------------------------------------------------------------------- text

RECURSIVE Join(_, _)
Join(ss, sep) ==
    IF ss = <<>> THEN ""
    ELSE IF Len(ss) = 1 THEN ss[1]
    ELSE ss[1] \o sep \o Join(Tail(ss), sep)

\* s.replace(/c/g, r), c one character
RECURSIVE ReplaceAll(_, _, _)
ReplaceAll(s, c, r) ==
    IF Len(s) = 0 THEN ""
    ELSE (IF SubSeq(s, 1, 1) = c THEN r ELSE SubSeq(s, 1, 1))
         \o ReplaceAll(SubSeq(s, 2, Len(s)), c, r)

\* s.includes(c), c one character
Includes(s, c) == \E i \in 1..Len(s) : SubSeq(s, i, i) = c

\* s.startsWith(p)
StartsWith(s, p) == Len(s) >= Len(p) /\ SubSeq(s, 1, Len(p)) = p

Digit(d) == <<"0", "1", "2", "3", "4", "5", "6", "7", "8", "9">>[d + 1]
\* n.toString() of an integer
RECURSIVE NumToString(_)
NumToString(n) ==
    IF n < 0 THEN "-" \o NumToString(0 - n)
    ELSE IF n < 10 THEN Digit(n)
    ELSE NumToString(n \div 10) \o Digit(n % 10)

\* content.split('\n')
RECURSIVE SplitLines(_)
SplitLines(s) ==
    IF ~Includes(s, "\n") THEN <<s>>
    ELSE LET i == CHOOSE j \in 1..Len(s) :
                    SubSeq(s, j, j) = "\n"
                    /\ \A m \in 1..(j - 1) : SubSeq(s, m, m) # "\n"
         IN <<SubSeq(s, 1, i - 1)>> \o SplitLines(SubSeq(s, i + 1, Len(s)))

\* v.toString() of a boolean, a number or a string
JsToString(sc) ==
    CASE sc.k = "bool" -> (IF sc.b THEN "true" ELSE "false")
      [] sc.k = "num" -> NumToString(sc.n)
      [] OTHER -> sc.s

\* JSON.stringify of a string: quotes, backslashes and newlines escaped.
JSONString(s) ==
    "\"" \o ReplaceAll(ReplaceAll(ReplaceAll(s, "\\", "\\\\"), "\"", "\\\""),
                       "\n", "\\n") \o "\""
JSONScalar(sc) ==
    CASE sc.k \in {"undef", "null"} -> "null"
      [] sc.k = "str" -> JSONString(sc.s)
      [] OTHER -> JsToString(sc)
\* JSON.stringify(v): an undefined field of an object is left out.
JSONStringify(v) ==
    CASE IsScalar(v) -> JSONScalar(Lower(v))
      [] v.k = "arr" ->
           "[" \o Join([i \in 1..Len(v.items) |-> JSONScalar(v.items[i])], ",")
               \o "]"
      [] OTHER ->
           LET es == SelectSeq(EntriesOf(v), LAMBDA e : e.val.k # "undef")
           IN "{" \o Join([i \in 1..Len(es) |->
                              JSONString(es[i].key) \o ":" \o JSONScalar(es[i].val)],
                          ",") \o "}"

\* ------------------------------------------- variables of a deploy request

\* The variable names a request can carry, in the order of the request body.
AllNames == <<"db_password", "region", "replicas", "zone">>
Names == {AllNames[i] : i \in 1..NumVars}

\* The keys of object m in insertion order (Object.entries order).
KeysOf(m) ==
    LET idx == SelectSeq([i \in 1..Len(AllNames) |-> i],
                         LAMBDA i : AllNames[i] \in DOMAIN m)
    IN [j \in 1..Len(idx) |-> AllNames[idx[j]]]

\* `value` of generateTfvarsContent and of extractSensitiveEnvVars: the value
\* field of an object that has one, the submitted value itself otherwise.
\* generateTfvarsContent does not test truthiness: it has returned on a falsy
\* variableInfo before.
ActualValue(info) ==
    IF IsObject(info) /\ FieldValue(info).k # "undef"
    THEN FieldValue(info) ELSE info

\* item of an array, v of an object entry: quoted when a string.
FormatItem(sc) ==
    IF sc.k = "str" THEN "\"" \o ReplaceAll(sc.s, "\"", "\\\"") \o "\""
    ELSE JsToString(sc)
\* v.toString() throws on null and undefined.
ItemThrows(sc) == sc.k \in {"undef", "null"}
FormatKey(key) ==
    IF Includes(key, "-") \/ Includes(key, " ") THEN "\"" \o key \o "\"" ELSE key

FormatValue(value) ==
    CASE value.k \in {"undef", "null"} -> "null"
      [] value.k = "bool" -> JsToString(Lower(value))
      [] value.k = "num" -> JsToString(Lower(value))
      [] value.k = "str" ->
           "\"" \o ReplaceAll(ReplaceAll(value.s, "\"", "\\\""), "\n", "\\n")
                \o "\""
      [] value.k = "arr" ->
           "[" \o Join([i \in 1..Len(value.items) |-> FormatItem(value.items[i])],
                       ", ") \o "]"
      [] OTHER ->
           LET es == EntriesOf(value)
           IN IF \E i \in 1..Len(es) : ItemThrows(es[i].val)
              THEN "\"" \o ReplaceAll(JSONStringify(value), "\"", "\\\"") \o "\""
              ELSE "{\n  "
                   \o Join([i \in 1..Len(es) |->
                              FormatKey(es[i].key) \o " = " \o FormatItem(es[i].val)],
                           "\n  ")
                   \o "\n}"

\* The two early returns of the forEach body of generateTfvarsContent.
SkipVariable(variableInfo) ==
    \/ ~Truthy(variableInfo)
    \/ FieldSensitive(variableInfo) = Lift(SBool(TRUE))

TfvarsLines(variables) ==
    LET ks == SelectSeq(KeysOf(variables),
                        LAMBDA key : ~SkipVariable(variables[key]))
    IN [i \in 1..Len(ks) |->
          ks[i] \o " = " \o FormatValue(ActualValue(variables[ks[i]]))]

generateTfvarsContent(variables) == Join(TfvarsLines(variables), "\n") \o "\n"

\* ------------------------------------------------------------ environment

\* terraformSystemEnvVars of extractSensitiveEnvVars.
terraformSystemEnvVars ==
    {"TF_DATA_DIR", "TF_WORKSPACE", "TF_IN_AUTOMATION", "TF_INPUT",
     "TF_CLI_CONFIG_FILE", "TF_PLUGIN_CACHE_DIR", "TF_REGISTRY_DISCOVERY_RETRY",
     "TF_REGISTRY_CLIENT_TIMEOUT", "TF_BACKEND_CONFIG", "TF_FORCE_LOCAL_BACKEND",
     "TF_SKIP_REMOTE_TESTS", "TF_STATE_LOCK", "TF_STATE_LOCK_TIMEOUT",
     "TF_LOCK_TIMEOUT", "TF_CLOUD_ORGANIZATION", "TF_CLOUD_HOSTNAME", "TF_TOKEN",
     "TF_TOKEN_app_terraform_io", "AWS_PROFILE", "AWS_REGION",
     "AWS_ACCESS_KEY_ID", "AWS_SECRET_ACCESS_KEY", "AZURE_SUBSCRIPTION_ID",
     "AZURE_CLIENT_ID", "AZURE_CLIENT_SECRET", "AZURE_TENANT_ID",
     "GOOGLE_APPLICATION_CREDENTIALS", "GOOGLE_PROJECT", "GOOGLE_REGION",
     "CONSUL_HTTP_ADDR", "CONSUL_HTTP_TOKEN", "ETCDV3_ENDPOINTS"}

\* { ...a, ...b }
Spread(a, b) ==
    [key \in DOMAIN a \cup DOMAIN b |-> IF key \in DOMAIN b THEN b[key] ELSE a[key]]

\* A test that takes every declaration not marked `sensitive: false` as
\* sensitive.
IsSensitive_NotFalse(terraformVariables, key) ==
    /\ key \in DOMAIN terraformVariables
    /\ terraformVariables[key].sensitive # SBool(FALSE)

\* `terraformVar && terraformVar.sensitive === true`
IsSensitive(terraformVariables, key) ==
    /\ key \in DOMAIN terraformVariables
    /\ terraformVariables[key].sensitive = SBool(TRUE)

\* `value` of extractSensitiveEnvVars.
EnvActualValue(userValue) ==
    IF Truthy(userValue) /\ IsObject(userValue) /\ FieldValue(userValue).k # "undef"
    THEN FieldValue(userValue) ELSE userValue

\* `envValue`: null, undefined and '' become ''.
EnvValue(value) ==
    IF value.k \notin {"null", "undef"} /\ value # Lift(SStr(""))
    THEN value ELSE Lift(SStr(""))

extractSensitiveEnvVars(variables, terraformVariables, env) ==
    LET system == [key \in {e \in terraformSystemEnvVars :
                              e \in DOMAIN env /\ env[e] # ""}
                     |-> Lift(SStr(env[key]))]
        automation == [key \in {"TF_IN_AUTOMATION", "TF_INPUT"} |->
                         IF key = "TF_INPUT" THEN Lift(SStr("false"))
                         ELSE Lift(SStr("true"))]
        sens == {key \in DOMAIN variables : IsSensitive(terraformVariables, key)}
        byEnvName == [e \in {"TF_VAR_" \o key : key \in sens} |->
                        LET key == CHOOSE c \in sens : "TF_VAR_" \o c = e
                        IN EnvValue(EnvActualValue(variables[key]))]
    IN Spread(Spread(system, automation), byEnvName)

\* process.env as a map of values.
EnvOf(env) == [key \in DOMAIN env |-> Lift(SStr(env[key]))]

\* backendConfig of createBackendConfig.
BackendConfig(envVars) ==
    "\n# Auto-generated backend configuration for state management\n"
    \o "terraform {\n  backend \"local\" {\n    path = \""
    \o JsToString(Lower(envVars["TF_DATA_DIR"]))
    \o "/terraform.tfstate\"\n  }\n}\n"

\* `if (envVars.TF_DATA_DIR)`
NeedsBackendConfig(envVars) ==
    "TF_DATA_DIR" \in DOMAIN envVars /\ Truthy(envVars["TF_DATA_DIR"])

\* ----------------------------------------------------------------- events

\* An event of the streaming channel. origin tells the text the server wrote
\* itself ("server") from the output of a provisioning process ("process").
Event(op, kind, message, success, origin) ==
    [op |-> op, kind |-> kind, message |-> message, success |-> success,
     origin |-> origin]
Log(op, message) == Event(op, "deployment-log", message, "", "server")
Complete(op, success, message) ==
    Event(op, "deployment-complete", message,
          IF success THEN "true" ELSE "false", "server")

\* `${x}` of a scalar.
Template(sc) ==
    CASE sc.k = "undef" -> "undefined"
      [] sc.k = "null" -> "null"
      [] OTHER -> JsToString(sc)

TypeOf(v) ==
    CASE v.k = "undef" -> "undefined"
      [] v.k = "bool" -> "boolean"
      [] v.k = "num" -> "number"
      [] v.k = "str" -> "string"
      [] OTHER -> "object"

\* Object.keys order of the environment objects: the system names in the
\* order of the list, the two automation flags, then the TF_VAR_ names.
EnvOrder ==
    <<"TF_DATA_DIR", "TF_WORKSPACE", "TF_CLI_CONFIG_FILE", "TF_PLUGIN_CACHE_DIR",
      "TF_TOKEN", "AWS_REGION", "TF_IN_AUTOMATION", "TF_INPUT">>
    \o [i \in 1..Len(AllNames) |-> "TF_VAR_" \o AllNames[i]]
EnvKeys(m) == SelectSeq(EnvOrder, LAMBDA key : key \in DOMAIN m)

\* `v && v.length > 0`
HasLength(v) ==
    \/ v.k = "str" /\ v.s # ""
    \/ v.k = "arr" /\ v.items # <<>>

RECURSIVE Flatten(_)
Flatten(ss) == IF ss = <<>> THEN <<>> ELSE ss[1] \o Flatten(Tail(ss))

\* The deployment-log events the monolithic handler emits between writing
\* backend.tf and spawning init.
MonolithMessages(variables, terraformVariables, envVars, env, backendCreated) ==
    LET keys == KeysOf(variables)
        tfKeys == KeysOf(terraformVariables)
        PerVariable(key) ==
            LET info == variables[key]
                isObj == IsObject(info) /\ info.k # "null"
            IN <<"Debug: " \o key \o " - type: " \o TypeOf(info) \o ", isObject: "
                   \o (IF isObj THEN "true" ELSE "false")>>
               \o (IF isObj
                   THEN <<"Debug: " \o key \o " structure: sensitive="
                            \o Template(Lower(FieldSensitive(info)))
                            \o ", value="
                            \o (IF Truthy(FieldValue(info)) THEN "[SET]"
                                ELSE "[EMPTY]")
                            \o ", type=undefined",
                          "Debug: " \o key \o " all properties: "
                            \o JSONStringify(info)>>
                   ELSE <<"Debug: " \o key \o " value: " \o JSONStringify(info)>>)
        sensitiveVarNames ==
            SelectSeq(keys, LAMBDA key : IsSensitive(terraformVariables, key))
        envVarNames == EnvKeys(envVars)
        systemVars == SelectSeq(envVarNames, LAMBDA n : ~StartsWith(n, "TF_VAR_"))
        sensitiveVars == SelectSeq(envVarNames, LAMBDA n : StartsWith(n, "TF_VAR_"))
        tofuEnv == Spread(EnvOf(env), envVars)
        tofuEnvVars == SelectSeq(EnvKeys(tofuEnv), LAMBDA n : StartsWith(n, "TF_"))
        tofuSensitive == SelectSeq(tofuEnvVars, LAMBDA n : StartsWith(n, "TF_VAR_"))
    IN (IF backendCreated
        THEN <<"Created backend configuration for state management">> ELSE <<>>)
       \o <<"Repository downloaded and terraform.tfvars created",
            "Generated terraform.tfvars:\n" \o generateTfvarsContent(variables),
            "Initializing Terraform...",
            "Debug: Processing " \o NumToString(Len(keys)) \o " variables: "
              \o Join(keys, ", ")>>
       \o Flatten([i \in 1..Len(keys) |-> PerVariable(keys[i])])
       \o <<"Debug: Original Terraform variables: " \o Join(tfKeys, ", ")>>
       \o [i \in 1..Len(tfKeys) |->
             "Debug: TF " \o tfKeys[i] \o " - sensitive: "
               \o Template(terraformVariables[tfKeys[i]].sensitive)
               \o ", required: " \o Template(terraformVariables[tfKeys[i]].required)]
       \o (IF sensitiveVarNames # <<>>
           THEN <<"Debug: Variables marked as sensitive in TF: "
                    \o Join(sensitiveVarNames, ", ")>>
           ELSE <<"Debug: No variables marked as sensitive in TF definitions!">>)
       \o (IF systemVars # <<>>
           THEN <<"Using Terraform system environment variables: "
                    \o Join(systemVars, ", ")>>
           ELSE <<>>)
       \o (IF sensitiveVars # <<>>
           THEN <<"Setting sensitive variables as environment variables: "
                    \o Join(sensitiveVars, ", ")>>
           ELSE <<>>)
       \o [i \in 1..Len(sensitiveVars) |->
             "Debug: " \o sensitiveVars[i] \o "="
               \o (IF Truthy(envVars[sensitiveVars[i]]) THEN "[SET]" ELSE "[EMPTY]")]
       \o (IF tofuEnvVars # <<>>
           THEN <<"Debug: Environment variables that will be passed to tofu: "
                    \o Join(tofuEnvVars, ", ")>>
                \o [i \in 1..Len(tofuSensitive) |->
                      "Debug: " \o tofuSensitive[i] \o "="
                        \o (IF HasLength(tofuEnv[tofuSensitive[i]])
                            THEN "[HAS_VALUE]" ELSE "[EMPTY]")]
           ELSE <<>>)

\* ------------------------------------------------------------------ state

\* More bounds: concurrent requests, connected consumers, and the output
\* chunks one request's processes write.
MaxOps == 2
MaxSockets == 2
MaxChunks == 1

Ops == 1..MaxOps
Sockets == 1..MaxSockets
DeploymentIds == {"d1", "d2"}
\* The exit code a 'close' event carries: a number, or null after a signal.
ExitCodes == {SNum(0), SNum(1), SNull}
\* Chunks of process output: some text, and a blank one.
StdoutTexts == {"out", " \n"}
\* The two server builds: the modular server with its service modules, and
\* the single-file server that spawns init in the handler.
Builds == {"modular", "monolith"}
\* The files of the repository directory.
RepoFiles ==
    [f \in {"main.tf", "terraform.tfvars", "backend.tf"} |-> "repository " \o f]

EmptyMap == [x \in {} |-> ""]

VARIABLES
    build,               \* which server build runs
    variables,           \* req.body.variables
    terraformVariables,  \* req.body.repoData.terraformVariables
    processEnv,          \* process.env of the server
    ops,                 \* the requests: position, identifier, response
    dirs,                \* the deployment directories that exist
    files,               \* the files of each deployment directory
    channel,             \* per room, the events emitted to it, in order
    sockets,             \* the connected consumers
    rooms,               \* per room, the consumers that joined it
    inbox,               \* per consumer, the events delivered to it
    joinedAt,            \* per consumer and room, Len(channel) at its join
    crashed              \* an uncaught exception ended the server process

vars == <<build, variables, terraformVariables, processEnv, ops, dirs, files,
          channel, sockets, rooms, inbox, joinedAt, crashed>>

IdleOp ==
    [kind |-> "", pc |-> "idle", id |-> "", status |-> 0, envVars |-> EmptyMap,
     error |-> "", spawned |-> <<>>, initCode |-> SUndef, code |-> SUndef,
     chunks |-> 0,
     \* of a parse request: the locator, the directory listing, the index of
     \* the .tf file being fetched, the requests sent to the remote API, the
     \* files fetched, and the maps of the response
     repoUrl |-> "", files |-> <<>>, next |-> 0, requests |-> <<>>,
     fetched |-> <<>>, terraformVariables |-> EmptyMap,
     tfvarsVariables |-> EmptyMap, readmeVariables |-> EmptyMap,
     variables |-> EmptyMap,
     \* of a call of the normalization: the text and the cleaned text
     content |-> "", cleanContent |-> ""]

\* io.emit: a broadcast to every connected consumer.
Recipients_All(room) == {s \in Sockets : sockets[s] = "connected"}

\* io.to(room): the consumers an event emitted to the room is delivered to.
Recipients(room) == rooms[room]

\* socket.emit on io.to(room), for a batch of events emitted back to back.
EmitTo(room, events) ==
    /\ channel' = [channel EXCEPT ![room] = @ \o events]
    /\ inbox' = [s \in Sockets |->
                   IF s \in Recipients(room) THEN inbox[s] \o events ELSE inbox[s]]

\* spawn('tofu', [cmd, ...]): the child runs, or it cannot be started and its
\* 'error' event, which has no listener, ends the server process.
Spawn(op, cmd, spawnOk) ==
    [op EXCEPT !.pc = IF spawnOk THEN cmd ELSE "spawnError",
               !.spawned = @ \o <<cmd>>]

\* startTerraformApply up to the spawn of the console test.
StartApplyEvents(o) ==
    <<Log(o, "Debug: Testing if tofu can see environment variables...")>>

\* An identifier check that lets the empty identifier through.
MissingId_Never(id) == id = "undefined"

\* `!deploymentId`
MissingId(id) == id = ""

\* `!code`: a null exit code counts as success.
ExitedOk_Falsy(code) == code \in {SNum(0), SNull}

\* `code === 0`
ExitedOk(code) == code = SNum(0)

\* The deployment-complete event of a 'close' handler.
CloseEvent(o, code, okMessage, failPrefix) ==
    IF ExitedOk(code) THEN Complete(o, TRUE, okMessage)
    ELSE Complete(o, FALSE, failPrefix \o Template(code))

\* message.trim() is empty
IsBlank(text) ==
    \A i \in 1..Len(text) : SubSeq(text, i, i) \in {" ", "\n"}
\* message.includes(word)
HasSubstring(text, word) ==
    \E i \in 1..(Len(text) - Len(word) + 1) :
        SubSeq(text, i, i + Len(word) - 1) = word
\* message.trim(), for text with blanks at its ends only
RECURSIVE TrimEnd(_)
TrimEnd(text) ==
    IF Len(text) > 0 /\ SubSeq(text, Len(text), Len(text)) \in {" ", "\n"}
    THEN TrimEnd(SubSeq(text, 1, Len(text) - 1)) ELSE text
RECURSIVE TrimStart(_)
TrimStart(text) ==
    IF Len(text) > 0 /\ SubSeq(text, 1, 1) \in {" ", "\n"}
    THEN TrimStart(SubSeq(text, 2, Len(text))) ELSE text
Trim(text) == TrimStart(TrimEnd(text))

\* ------------------------------------------------- POST /api/deploy handler

\* The handler up to its first await: the identifier check, then fs.mkdir.
DeployRequest(o, id) ==
    /\ ~crashed
    /\ ops[o].pc = "idle"
    /\ ops' = [ops EXCEPT ![o] =
                 IF MissingId(id)
                 THEN [@ EXCEPT !.kind = "deploy", !.pc = "rejected", !.status = 400,
                                !.error = "Deployment ID is required"]
                 ELSE [@ EXCEPT !.kind = "deploy", !.pc = "mkdir", !.id = id]]
    /\ UNCHANGED <<build, variables, terraformVariables, processEnv, dirs, files,
                   channel, sockets, rooms, inbox, joinedAt, crashed>>

\* The catch block: HTTP 500, nothing emitted.
Fail500(o) ==
    /\ ops' = [ops EXCEPT ![o] = [@ EXCEPT !.pc = "failed", !.status = 500,
                                           !.error = "Deployment failed"]]
    /\ UNCHANGED <<dirs, files, channel, inbox, crashed>>

\* fs.mkdir settles; the modular handler announces the download and starts it.
MkdirDone(o, ok) ==
    /\ ~crashed
    /\ ops[o].kind = "deploy" /\ ops[o].pc = "mkdir"
    /\ IF ok
       THEN /\ dirs' = dirs \cup {ops[o].id}
            /\ ops' = [ops EXCEPT ![o] = [@ EXCEPT !.pc = "download"]]
            /\ EmitTo(ops[o].id,
                      IF build = "modular"
                      THEN <<Log(o, "Downloading repository files...")>> ELSE <<>>)
            /\ UNCHANGED <<files, crashed>>
       ELSE Fail500(o)
    /\ UNCHANGED <<build, variables, terraformVariables, processEnv, sockets, rooms,
                   joinedAt>>

\* downloadRepository settles; then the environment and the tfvars content are
\* computed and the write of terraform.tfvars starts.
DownloadDone(o, ok) ==
    /\ ~crashed
    /\ ops[o].kind = "deploy" /\ ops[o].pc = "download"
    /\ IF ok
       THEN /\ files' = [files EXCEPT ![ops[o].id] = Spread(@, RepoFiles)]
            /\ ops' = [ops EXCEPT ![o] =
                         [@ EXCEPT !.pc = "writeTfvars",
                                   !.envVars = extractSensitiveEnvVars(
                                       variables, terraformVariables, processEnv)]]
            /\ EmitTo(ops[o].id,
                      IF build = "modular"
                      THEN <<Log(o, "Repository files downloaded")>> ELSE <<>>)
            /\ UNCHANGED <<dirs, crashed>>
       ELSE Fail500(o)
    /\ UNCHANGED <<build, variables, terraformVariables, processEnv, sockets, rooms,
                   joinedAt>>

\* From the end of createBackendConfig to the response: the handler's last
\* events, the spawn of the first process, res.json({success: true}).
StartProvisioning(o, before, backendCreated, spawnOk) ==
    /\ EmitTo(ops[o].id,
              before \o
              (IF build = "modular"
               THEN (IF backendCreated
                     THEN <<Log(o, "Backend configuration created")>> ELSE <<>>)
                    \o <<Log(o, "Preparing OpenTofu deployment...")>>
                    \o StartApplyEvents(o)
               ELSE LET ms == MonolithMessages(variables, terraformVariables,
                                               ops[o].envVars, processEnv,
                                               backendCreated)
                    IN [i \in 1..Len(ms) |-> Log(o, ms[i])]))
    /\ ops' = [ops EXCEPT ![o] =
                 [Spawn(@, IF build = "modular" THEN "console" ELSE "init", spawnOk)
                    EXCEPT !.status = 200]]
    /\ crashed' = ~spawnOk

\* The write of terraform.tfvars settles; createBackendConfig starts its own
\* write when TF_DATA_DIR is set.
WriteTfvarsDone(o, ok, spawnOk) ==
    /\ ~crashed
    /\ ops[o].kind = "deploy" /\ ops[o].pc = "writeTfvars"
    /\ IF ok
       THEN LET configured ==
                    IF build = "modular"
                    THEN <<Log(o, "User variables configured")>> ELSE <<>>
            IN /\ files' = [files EXCEPT ![ops[o].id] =
                              Spread(@, [f \in {"terraform.tfvars"} |->
                                           generateTfvarsContent(variables)])]
               /\ IF NeedsBackendConfig(ops[o].envVars)
                  THEN /\ ops' = [ops EXCEPT ![o] = [@ EXCEPT !.pc = "writeBackend"]]
                       /\ EmitTo(ops[o].id, configured)
                       /\ UNCHANGED crashed
                  ELSE StartProvisioning(o, configured, FALSE, spawnOk)
               /\ UNCHANGED dirs
       ELSE Fail500(o)
    /\ UNCHANGED <<build, variables, terraformVariables, processEnv, sockets, rooms,
                   joinedAt>>

\* The write of backend.tf settles.
WriteBackendDone(o, ok, spawnOk) ==
    /\ ~crashed
    /\ ops[o].kind = "deploy" /\ ops[o].pc = "writeBackend"
    /\ IF ok
       THEN /\ files' = [files EXCEPT ![ops[o].id] =
                           Spread(@, [f \in {"backend.tf"} |->
                                        BackendConfig(ops[o].envVars)])]
            /\ StartProvisioning(o, <<>>, TRUE, spawnOk)
            /\ UNCHANGED dirs
       ELSE Fail500(o)
    /\ UNCHANGED <<build, variables, terraformVariables, processEnv, sockets, rooms,
                   joinedAt>>

\* ------------------------- POST /api/deploy, the handler that writes first

\* The build whose deploy handler writes terraform.tfvars and backend.tf
\* before it downloads the repository.
WritesFirst == "writesFirst"

\* fs.mkdir settles; the environment and the tfvars content are computed and
\* the write of terraform.tfvars starts.
MkdirThenWrite(o, ok) ==
    /\ ~crashed
    /\ build = WritesFirst
    /\ ops[o].kind = "deploy" /\ ops[o].pc = "mkdir"
    /\ IF ok
       THEN /\ dirs' = dirs \cup {ops[o].id}
            /\ ops' = [ops EXCEPT ![o] =
                         [@ EXCEPT !.pc = "writeTfvars",
                                   !.envVars = extractSensitiveEnvVars(
                                       variables, terraformVariables, processEnv)]]
            /\ UNCHANGED <<files, channel, inbox, crashed>>
       ELSE Fail500(o)
    /\ UNCHANGED <<build, variables, terraformVariables, processEnv, sockets, rooms,
                   joinedAt>>

\* The write of terraform.tfvars settles; createBackendConfig starts its own
\* write, or the download is announced and started.
WriteThenDownload(o, ok) ==
    /\ ~crashed
    /\ build = WritesFirst
    /\ ops[o].kind = "deploy" /\ ops[o].pc = "writeTfvars"
    /\ IF ok
       THEN /\ files' = [files EXCEPT ![ops[o].id] =
                           Spread(@, [f \in {"terraform.tfvars"} |->
                                        generateTfvarsContent(variables)])]
            /\ IF NeedsBackendConfig(ops[o].envVars)
               THEN /\ ops' = [ops EXCEPT ![o] = [@ EXCEPT !.pc = "writeBackend"]]
                    /\ UNCHANGED <<channel, inbox>>
               ELSE /\ ops' = [ops EXCEPT ![o] = [@ EXCEPT !.pc = "download"]]
                    /\ EmitTo(ops[o].id,
                              <<Log(o, "Downloading repository files...")>>)
            /\ UNCHANGED <<dirs, crashed>>
       ELSE Fail500(o)
    /\ UNCHANGED <<build, variables, terraformVariables, processEnv, sockets, rooms,
                   joinedAt>>

\* The write of backend.tf settles; the download is announced and started.
BackendThenDownload(o, ok) ==
    /\ ~crashed
    /\ build = WritesFirst
    /\ ops[o].kind = "deploy" /\ ops[o].pc = "writeBackend"
    /\ IF ok
       THEN /\ files' = [files EXCEPT ![ops[o].id] =
                           Spread(@, [f \in {"backend.tf"} |->
                                        BackendConfig(ops[o].envVars)])]
            /\ ops' = [ops EXCEPT ![o] = [@ EXCEPT !.pc = "download"]]
            /\ EmitTo(ops[o].id,
                      <<Log(o, "Backend configuration created"),
                        Log(o, "Downloading repository files...")>>)
            /\ UNCHANGED <<dirs, crashed>>
       ELSE Fail500(o)
    /\ UNCHANGED <<build, variables, terraformVariables, processEnv, sockets, rooms,
                   joinedAt>>

\* downloadRepository settles, each file of the repository directory written
\* into the deployment directory; then startTerraformApply and the response.
DownloadLast(o, ok, spawnOk) ==
    /\ ~crashed
    /\ build = WritesFirst
    /\ ops[o].kind = "deploy" /\ ops[o].pc = "download"
    /\ IF ok
       THEN /\ files' = [files EXCEPT ![ops[o].id] = Spread(@, RepoFiles)]
            /\ ops' = [ops EXCEPT ![o] =
                         [Spawn(@, "console", spawnOk) EXCEPT !.status = 200]]
            /\ crashed' = ~spawnOk
            /\ EmitTo(ops[o].id,
                      <<Log(o, "Repository files downloaded"),
                        Log(o, "Preparing OpenTofu deployment...")>>
                      \o StartApplyEvents(o))
            /\ UNCHANGED dirs
       ELSE Fail500(o)
    /\ UNCHANGED <<build, variables, terraformVariables, processEnv, sockets, rooms,
                   joinedAt>>

\* ------------------------------------------------- provisioning processes

Running(o) == ops[o].pc \in {"init", "console", "apply", "destroy"}

RECURSIVE ChunksOf(_)
ChunksOf(os) ==
    IF os = {} THEN 0
    ELSE LET o == CHOOSE x \in os : TRUE
         IN ops[o].chunks + ChunksOf(os \ {o})

\* The chunks written so far by all processes.
Chunks == ChunksOf(Ops)

\* A 'data' event of the running process's stdout.
ProcStdout(o, text) ==
    /\ ~crashed
    /\ Running(o)
    /\ Chunks < MaxChunks
    /\ ops' = [ops EXCEPT ![o] = [@ EXCEPT !.chunks = @ + 1]]
    /\ EmitTo(ops[o].id,
              IF ops[o].pc = "console"
              THEN (IF ~IsBlank(text) /\ ~HasSubstring(text, "exit")
                    THEN <<Log(o, "Debug: Variable test result: " \o Trim(text))>>
                    ELSE <<>>)
              ELSE <<Event(o, "deployment-log", text, "", "process")>>)
    /\ UNCHANGED <<build, variables, terraformVariables, processEnv, dirs, files,
                   sockets, rooms, joinedAt, crashed>>

\* A 'data' event of stderr; the console test has no listener for it.
ProcStderr(o, text) ==
    /\ ~crashed
    /\ ops[o].pc \in {"init", "apply", "destroy"}
    /\ Chunks < MaxChunks
    /\ ops' = [ops EXCEPT ![o] = [@ EXCEPT !.chunks = @ + 1]]
    /\ EmitTo(ops[o].id, <<Event(o, "deployment-error", text, "", "process")>>)
    /\ UNCHANGED <<build, variables, terraformVariables, processEnv, dirs, files,
                   sockets, rooms, joinedAt, crashed>>

\* An init 'close' handler that goes on to apply whatever the code.
AfterInit_FallThrough(op, code, spawnOk) ==
    [Spawn(op, "console", spawnOk) EXCEPT !.initCode = code]

\* The op after init.on('close'): apply is started through startTerraformApply
\* on code 0, the operation ends otherwise.
AfterInit(op, code, spawnOk) ==
    IF ExitedOk(code)
    THEN [Spawn(op, "console", spawnOk) EXCEPT !.initCode = code]
    ELSE [op EXCEPT !.pc = "done", !.initCode = code]

\* init.on('close') of the monolithic handler.
InitClose(o, code, spawnOk) ==
    /\ ~crashed
    /\ ops[o].pc = "init"
    /\ ops' = [ops EXCEPT ![o] = AfterInit(@, code, spawnOk)]
    /\ crashed' = (ops'[o].pc = "spawnError")
    /\ EmitTo(ops[o].id,
              IF ExitedOk(code)
              THEN <<Log(o, "Terraform initialization completed. Starting deployment...")>>
                   \o StartApplyEvents(o)
              ELSE <<Complete(o, FALSE,
                              "Terraform initialization failed with exit code "
                                \o Template(code))>>)
    /\ UNCHANGED <<build, variables, terraformVariables, processEnv, dirs, files,
                   sockets, rooms, joinedAt>>

\* envTest.on('close'): the exit code is not read.
ConsoleClose(o, spawnOk) ==
    /\ ~crashed
    /\ ops[o].pc = "console"
    /\ ops' = [ops EXCEPT ![o] = Spawn(@, "apply", spawnOk)]
    /\ crashed' = ~spawnOk
    /\ EmitTo(ops[o].id, <<Log(o, "Debug: Starting actual deployment...")>>)
    /\ UNCHANGED <<build, variables, terraformVariables, processEnv, dirs, files,
                   sockets, rooms, joinedAt>>

\* tofu.on('close') of startTerraformApply.
ApplyClose(o, code) ==
    /\ ~crashed
    /\ ops[o].pc = "apply"
    /\ ops' = [ops EXCEPT ![o] = [@ EXCEPT !.pc = "done", !.code = code]]
    /\ EmitTo(ops[o].id,
              <<CloseEvent(o, code, "Deployment completed successfully",
                           "Deployment failed with exit code ")>>)
    /\ UNCHANGED <<build, variables, terraformVariables, processEnv, dirs, files,
                   sockets, rooms, joinedAt, crashed>>

\* ------------------------------------ POST /api/deployments/:id/destroy

\* The handler up to its await of fs.access.
DestroyRequest(o, id) ==
    /\ ~crashed
    /\ build = "modular"
    /\ ops[o].pc = "idle"
    /\ ops' = [ops EXCEPT ![o] = [@ EXCEPT !.kind = "destroy", !.pc = "access",
                                           !.id = id]]
    /\ UNCHANGED <<build, variables, terraformVariables, processEnv, dirs, files,
                   channel, sockets, rooms, inbox, joinedAt, crashed>>

\* A check that finds every deployment directory.
DeploymentExists_Always(id) == TRUE

\* `await fs.access(deploymentDir)` does not throw.
DeploymentExists(id) == id \in dirs

\* fs.access settles: 404, or destroyDeployment and the response.
DestroyAccessDone(o, spawnOk) ==
    /\ ~crashed
    /\ ops[o].kind = "destroy" /\ ops[o].pc = "access"
    /\ IF DeploymentExists(ops[o].id)
       THEN /\ ops' = [ops EXCEPT ![o] =
                         [Spawn(@, "destroy", spawnOk) EXCEPT
                            !.status = 200,
                            !.envVars =
                               Spread(EnvOf(processEnv),
                                      [key \in {"TF_IN_AUTOMATION", "TF_INPUT"} |->
                                         IF key = "TF_INPUT" THEN Lift(SStr("false"))
                                         ELSE Lift(SStr("true"))])]]
            /\ crashed' = ~spawnOk
            /\ EmitTo(ops[o].id,
                      <<Log(o, "Starting destruction of deployment " \o ops[o].id
                                 \o "...")>>)
       ELSE /\ ops' = [ops EXCEPT ![o] = [@ EXCEPT !.pc = "notfound", !.status = 404,
                                                   !.error = "Deployment not found"]]
            /\ UNCHANGED <<channel, inbox, crashed>>
    /\ UNCHANGED <<build, variables, terraformVariables, processEnv, dirs, files,
                   sockets, rooms, joinedAt>>

\* tofuDestroy.on('close').
DestroyClose(o, code) ==
    /\ ~crashed
    /\ ops[o].pc = "destroy"
    /\ ops' = [ops EXCEPT ![o] = [@ EXCEPT !.pc = "done", !.code = code]]
    /\ EmitTo(ops[o].id,
              <<CloseEvent(o, code,
                           "Deployment " \o ops[o].id \o " destroyed successfully",
                           "Destruction of deployment " \o ops[o].id
                             \o " failed with exit code ")>>)
    /\ UNCHANGED <<build, variables, terraformVariables, processEnv, dirs, files,
                   sockets, rooms, joinedAt, crashed>>

\* ------------------------------------------ DELETE /api/deployments/:id

\* The handler up to its await of deleteDeploymentDirectory.
DeleteRequest(o, id) ==
    /\ ~crashed
    /\ build = "modular"
    /\ ops[o].pc = "idle"
    /\ ops' = [ops EXCEPT ![o] = [@ EXCEPT !.kind = "delete", !.pc = "rm", !.id = id]]
    /\ UNCHANGED <<build, variables, terraformVariables, processEnv, dirs, files,
                   channel, sockets, rooms, inbox, joinedAt, crashed>>

\* fs.rm(deploymentDir, {recursive: true, force: true}) settles: the directory
\* and its files are gone, or the error is caught and 500 is answered.
DeleteDone(o, ok) ==
    /\ ~crashed
    /\ ops[o].kind = "delete" /\ ops[o].pc = "rm"
    /\ IF ok
       THEN /\ dirs' = dirs \ {ops[o].id}
            /\ files' = [files EXCEPT ![ops[o].id] = EmptyMap]
            /\ ops' = [ops EXCEPT ![o] = [@ EXCEPT !.pc = "deleted", !.status = 200]]
       ELSE /\ ops' = [ops EXCEPT ![o] =
                         [@ EXCEPT !.pc = "failed", !.status = 500,
                                   !.error = "Failed to delete deployment directory"]]
            /\ UNCHANGED <<dirs, files>>
    /\ UNCHANGED <<build, variables, terraformVariables, processEnv, channel,
                   sockets, rooms, inbox, joinedAt, crashed>>

\* ------------------------------------------------------ socket.io rooms

\* io.on('connection')
Connect(s) ==
    /\ ~crashed
    /\ sockets[s] = "new"
    /\ sockets' = [sockets EXCEPT ![s] = "connected"]
    /\ UNCHANGED <<build, variables, terraformVariables, processEnv, ops, dirs,
                   files, channel, rooms, inbox, joinedAt, crashed>>

\* socket.on('join-deployment'): socket.join(deploymentId).
JoinDeployment(s, room) ==
    /\ ~crashed
    /\ sockets[s] = "connected"
    /\ s \notin rooms[room]
    /\ rooms' = [rooms EXCEPT ![room] = @ \cup {s}]
    /\ joinedAt' = [joinedAt EXCEPT ![s][room] = Len(channel[room])]
    /\ UNCHANGED <<build, variables, terraformVariables, processEnv, ops, dirs,
                   files, channel, sockets, inbox, crashed>>

\* socket.on('disconnect'): the socket leaves its rooms.
Disconnect(s) ==
    /\ ~crashed
    /\ sockets[s] = "connected"
    /\ sockets' = [sockets EXCEPT ![s] = "closed"]
    /\ rooms' = [room \in DeploymentIds |-> rooms[room] \ {s}]
    /\ UNCHANGED <<build, variables, terraformVariables, processEnv, ops, dirs,
                   files, channel, inbox, joinedAt, crashed>>

\* ------------------------------------------------------- specifications

\* Request bodies: what one variable can be submitted as, and how it can be
\* declared.
SubmittedValues ==
    {Lift(SNull), Lift(SBool(FALSE)), Lift(SBool(TRUE)), Lift(SNum(0)),
     Lift(SNum(42)), Lift(SStr("")), Lift(SStr("s3\"c\nret")),
     VArr(<<SStr("a\"b"), SNum(7)>>),
     VMap(<<[key |-> "my-key", val |-> SStr("v")], [key |-> "n", val |-> SNum(1)]>>),
     VMap(<<[key |-> "k", val |-> SNull]>>),
     VWrap(SUndef, SUndef), VWrap(SStr("hunter2"), SBool(TRUE)),
     VWrap(SStr("eu"), SUndef), VWrap(SNull, SBool(FALSE)),
     VWrap(SStr(""), SBool(TRUE))}
Declarations ==
    {[sensitive |-> SBool(TRUE), required |-> SBool(TRUE)],
     [sensitive |-> SBool(FALSE), required |-> SBool(FALSE)],
     [sensitive |-> SUndef, required |-> SBool(FALSE)]}
Maps(values) == UNION {[d -> values] : d \in SUBSET Names}
Environments ==
    {EmptyMap, [key \in {"TF_DATA_DIR"} |-> "/state"],
     [key \in {"TF_DATA_DIR", "AWS_REGION"} |-> IF key = "AWS_REGION" THEN "" ELSE "/state"]}

InitWith(b, vs, tvs, env) ==
    /\ build = b
    /\ variables = vs
    /\ terraformVariables = tvs
    /\ processEnv = env
    /\ ops = [o \in Ops |-> IdleOp]
    /\ dirs = {}
    /\ files = [d \in DeploymentIds |-> EmptyMap]
    /\ channel = [d \in DeploymentIds |-> <<>>]
    /\ sockets = [s \in Sockets |-> "new"]
    /\ rooms = [d \in DeploymentIds |-> {}]
    /\ inbox = [s \in Sockets |-> <<>>]
    /\ joinedAt = [s \in Sockets |-> [d \in DeploymentIds |-> -1]]
    /\ crashed = FALSE

\* One request body of each kind for the specifications about control flow.
SampleVariables ==
    [n \in {AllNames[1], AllNames[2]} |->
       IF n = AllNames[1] THEN Lift(SStr("hunter2")) ELSE Lift(SStr("eu"))]
SampleDeclarations ==
    [n \in {AllNames[1], AllNames[2]} |->
       [sensitive |-> SBool(n = AllNames[1]), required |-> SBool(FALSE)]]

Init ==
    \E b \in Builds, env \in {EmptyMap, [key \in {"TF_DATA_DIR"} |-> "/state"]} :
        InitWith(b, SampleVariables, SampleDeclarations, env)

Requests(o) ==
    \/ \E id \in DeploymentIds \cup {""} : DeployRequest(o, id)
    \/ \E id \in DeploymentIds : DestroyRequest(o, id)

Handlers(o) ==
    \/ \E ok \in BOOLEAN : MkdirDone(o, ok)
    \/ \E ok \in BOOLEAN : DownloadDone(o, ok)
    \/ \E ok \in BOOLEAN, spawnOk \in BOOLEAN : WriteTfvarsDone(o, ok, spawnOk)
    \/ \E ok \in BOOLEAN, spawnOk \in BOOLEAN : WriteBackendDone(o, ok, spawnOk)
    \/ \E spawnOk \in BOOLEAN : DestroyAccessDone(o, spawnOk)

Processes(o) ==
    \/ \E text \in StdoutTexts : ProcStdout(o, text)
    \/ \E text \in {"err"} : ProcStderr(o, text)
    \/ \E code \in ExitCodes, spawnOk \in BOOLEAN : InitClose(o, code, spawnOk)
    \/ \E spawnOk \in BOOLEAN : ConsoleClose(o, spawnOk)
    \/ \E code \in ExitCodes : ApplyClose(o, code)
    \/ \E code \in ExitCodes : DestroyClose(o, code)

Next == \E o \in Ops : Requests(o) \/ Handlers(o) \/ Processes(o)

Spec == Init /\ [][Next]_vars

\* One deployment under each of the deploy handlers.
InitOrder ==
    \E b \in Builds \cup {WritesFirst},
       env \in {EmptyMap, [key \in {"TF_DATA_DIR"} |-> "/state"]} :
        InitWith(b, SampleVariables, SampleDeclarations, env)

DownloadFirst(o) ==
    /\ build \in Builds
    /\ \/ \E ok \in BOOLEAN : MkdirDone(o, ok)
       \/ \E ok \in BOOLEAN : DownloadDone(o, ok)
       \/ \E ok \in BOOLEAN, spawnOk \in BOOLEAN : WriteTfvarsDone(o, ok, spawnOk)
       \/ \E ok \in BOOLEAN, spawnOk \in BOOLEAN : WriteBackendDone(o, ok, spawnOk)

WriteFirst(o) ==
    \/ \E ok \in BOOLEAN : MkdirThenWrite(o, ok)
    \/ \E ok \in BOOLEAN : WriteThenDownload(o, ok)
    \/ \E ok \in BOOLEAN : BackendThenDownload(o, ok)
    \/ \E ok \in BOOLEAN, spawnOk \in BOOLEAN : DownloadLast(o, ok, spawnOk)

NextOrder ==
    \/ \E id \in DeploymentIds : DeployRequest(1, id)
    \/ DownloadFirst(1)
    \/ WriteFirst(1)
    \/ \E text \in StdoutTexts : ProcStdout(1, text)
    \/ \E code \in ExitCodes, spawnOk \in BOOLEAN : InitClose(1, code, spawnOk)
    \/ \E spawnOk \in BOOLEAN : ConsoleClose(1, spawnOk)
    \/ \E code \in ExitCodes : ApplyClose(1, code)

SpecOrder == InitOrder /\ [][NextOrder]_vars

\* One deployment with delete requests: a write into the directory and a
\* spawn in it succeed only while the directory exists.
Present(o, ok) == ok => ops[o].id \in dirs

DeploymentAndDelete(o) ==
    \/ \E id \in DeploymentIds : DeployRequest(o, id)
    \/ \E ok \in BOOLEAN : MkdirDone(o, ok)
    \/ \E ok \in BOOLEAN : Present(o, ok) /\ DownloadDone(o, ok)
    \/ \E ok \in BOOLEAN, spawnOk \in BOOLEAN :
          Present(o, ok) /\ Present(o, spawnOk) /\ WriteTfvarsDone(o, ok, spawnOk)
    \/ \E ok \in BOOLEAN, spawnOk \in BOOLEAN :
          Present(o, ok) /\ Present(o, spawnOk) /\ WriteBackendDone(o, ok, spawnOk)
    \/ \E text \in StdoutTexts : ProcStdout(o, text)
    \/ \E code \in ExitCodes, spawnOk \in BOOLEAN :
          Present(o, spawnOk) /\ InitClose(o, code, spawnOk)
    \/ \E spawnOk \in BOOLEAN : Present(o, spawnOk) /\ ConsoleClose(o, spawnOk)
    \/ \E code \in ExitCodes : ApplyClose(o, code)

NextDelete ==
    \/ DeploymentAndDelete(1)
    \/ \E id \in DeploymentIds : DeleteRequest(2, id)
    \/ \E ok \in BOOLEAN : DeleteDone(2, ok)

SpecDelete == Init /\ [][NextDelete]_vars

\* The streaming channel with its consumers.
Consumers(s) ==
    \/ Connect(s)
    \/ \E room \in DeploymentIds : JoinDeployment(s, room)
    \/ Disconnect(s)

\* One deployment whose preparation succeeds, and the consumers.
Deployment(o) ==
    \/ \E id \in DeploymentIds : DeployRequest(o, id)
    \/ MkdirDone(o, TRUE)
    \/ DownloadDone(o, TRUE)
    \/ WriteTfvarsDone(o, TRUE, TRUE)
    \/ WriteBackendDone(o, TRUE, TRUE)
    \/ ProcStdout(o, "out")
    \/ ProcStderr(o, "err")
    \/ InitClose(o, SNum(0), TRUE)
    \/ ConsoleClose(o, TRUE)
    \/ ApplyClose(o, SNum(0))

NextRooms ==
    \/ \E s \in Sockets : Consumers(s)
    \/ Deployment(1)

SpecRooms == Init /\ [][NextRooms]_vars

\* The preparation of one deployment, over the request bodies and environments.
InitVars ==
    \E b \in Builds, vs \in Maps(SubmittedValues), tvs \in Maps(Declarations),
       env \in Environments :
        InitWith(b, vs, tvs, env)

NextVars ==
    \/ DeployRequest(1, "d1")
    \/ MkdirDone(1, TRUE)
    \/ DownloadDone(1, TRUE)
    \/ WriteTfvarsDone(1, TRUE, TRUE)
    \/ WriteBackendDone(1, TRUE, TRUE)

SpecVars == InitVars /\ [][NextVars]_vars

\* ----------------------------------------------------------------- claims

\* The events of one request, in the order of their emission.
EventsOf(o) ==
    IF ops[o].id \in DeploymentIds
    THEN SelectSeq(channel[ops[o].id], LAMBDA e : e.op = o)
    ELSE <<>>
Completes(o) == SelectSeq(EventsOf(o), LAMBDA e : e.kind = "deployment-complete")
Last(events) == events[Len(events)]
\* The requests the handler answered {success: true}.
Accepted(o) == ops[o].kind = "deploy" /\ ops[o].status = 200
\* The lines of content that begin with `name = `.
LinesOf(content, name) ==
    SelectSeq(SplitLines(content), LAMBDA line : StartsWith(line, name \o " = "))
\* terraform.tfvars has been written by request o.
TfvarsWritten(o) ==
    /\ ops[o].kind = "deploy"
    /\ ops[o].pc \in {"writeBackend", "init", "console", "apply", "done"}
Tfvars(o) == files[ops[o].id]["terraform.tfvars"]

\* C1: the terraform.tfvars a deploy request writes has no `name = ` line for
\* a variable whose declaration has sensitive == true, whatever the shape of
\* the submitted value.
C1_NoSensitiveLine ==
    \A o \in Ops : TfvarsWritten(o) =>
        \A name \in DOMAIN variables \cap DOMAIN terraformVariables :
            terraformVariables[name].sensitive = SBool(TRUE)
                => LinesOf(Tfvars(o), name) = <<>>

FailedDeploy(o) ==
    /\ ops[o].kind = "deploy"
    /\ \/ ops[o].pc \in {"failed", "spawnError"}
       \/ ops[o].pc = "done" /\ ops[o].code # SNum(0)
C3_FailureEndsInComplete ==
    \A o \in Ops : FailedDeploy(o) =>
        /\ Len(Completes(o)) = 1
        /\ Last(EventsOf(o)).kind = "deployment-complete"
        /\ Last(EventsOf(o)).success = "false"

\* C4: what a consumer has received of room d is exactly what was emitted to
\* d while it was joined, in emission order: nothing if it never joined,
\* everything after its join while it is joined, and never an event from
\* before its join.
RoomInbox(s, d) ==
    SelectSeq(inbox[s], LAMBDA e : ops[e.op].id = d)
IsPrefix(a, b) == Len(a) <= Len(b) /\ a = SubSeq(b, 1, Len(a))
EmittedSince(s, d) == SubSeq(channel[d], joinedAt[s][d] + 1, Len(channel[d]))
C4_DeliveredToJoined ==
    \A s \in Sockets, d \in DeploymentIds :
        IF joinedAt[s][d] < 0 THEN RoomInbox(s, d) = <<>>
        ELSE IF s \in rooms[d] THEN RoomInbox(s, d) = EmittedSince(s, d)
        ELSE IsPrefix(RoomInbox(s, d), EmittedSince(s, d))
C4_Witness ==
    \E s, t \in Sockets, d \in DeploymentIds :
        /\ s \in rooms[d] /\ joinedAt[s][d] > 0
        /\ Len(channel[d]) > joinedAt[s][d]
        /\ sockets[t] = "connected" /\ t \notin rooms[d] /\ joinedAt[t][d] < 0
        /\ \E e \in DeploymentIds \ {d} : t \in rooms[e]

\* C5: the first process of every deploy request is init, and apply is
\* started only after init exited with code 0; after a non-zero init there is
\* no apply and a deployment-complete event with success == false.
C5_InitBeforeApply ==
    \A o \in Ops : ops[o].kind = "deploy" /\ ops[o].spawned # <<>> =>
        /\ ops[o].spawned[1] = "init"
        /\ (\E i \in 1..Len(ops[o].spawned) : ops[o].spawned[i] = "apply")
               => ops[o].initCode = SNum(0)
        /\ ops[o].initCode \notin {SUndef, SNum(0)}
               => /\ \A i \in 1..Len(ops[o].spawned) : ops[o].spawned[i] # "apply"
                  /\ Len(Completes(o)) = 1
                  /\ Completes(o)[1].success = "false"

\* C6: the step that takes a deploy request without an identifier answers it
\* 400 'Deployment ID is required' and changes nothing else: no directory, no
\* file, no event, no process; and nothing happens for that request later.
C6_MissingIdRejected ==
    [][\A o \in Ops :
          /\ (ops[o].pc = "idle" /\ ops'[o].kind = "deploy" /\ ops'[o].id = "")
                => /\ ops'[o].status = 400
                   /\ ops'[o].error = "Deployment ID is required"
                   /\ ops'[o].spawned = <<>>
                   /\ UNCHANGED <<dirs, files, channel, inbox, crashed>>
          /\ (ops[o].kind = "deploy" /\ ops[o].id = "") => ops'[o] = ops[o]]_vars
C6_Witness ==
    \E o, p \in Ops :
        /\ ops[o].kind = "deploy" /\ ops[o].id = "" /\ ops[o].status = 400
        /\ ops[p].pc = "done"

\* C7: after the close of an apply or destroy process, the request's
\* deployment-complete event has success == true exactly when the exit code
\* is 0, and the message of a failure contains the exit code.
ClosedBy(o, cmd) == ops[o].pc = "done" /\ Last(ops[o].spawned) = cmd
C7_SuccessIffZero ==
    \A o \in Ops : ClosedBy(o, "apply") \/ ClosedBy(o, "destroy") =>
        LET e == Last(EventsOf(o))
        IN /\ e.kind = "deployment-complete"
           /\ e.success = "true" <=> ops[o].code = SNum(0)
           /\ ops[o].code # SNum(0)
                 => HasSubstring(e.message,
                                 "exit code " \o Template(ops[o].code))
C7_Witness ==
    \E o, p \in Ops :
        /\ ClosedBy(o, "apply") /\ ops[o].code = SNull
        /\ ClosedBy(p, "destroy") /\ ops[p].code = SNum(1)

\* C8: once a deploy request has computed its environment, TF_VAR_k is in it
\* exactly for the submitted names k whose declaration has sensitive === true,
\* and its value is the submitted value, or the value field of a submitted
\* object that has one, with null, undefined and '' turned into ''.
EnvComputed(o) ==
    /\ ops[o].kind = "deploy"
    /\ ops[o].pc \in {"writeTfvars", "writeBackend", "init", "console"}
Declared(k) ==
    k \in DOMAIN terraformVariables /\ terraformVariables[k].sensitive = SBool(TRUE)
Submitted(k) ==
    LET v == variables[k]
    IN IF v.k \in {"wrap", "map"} /\ FieldValue(v) # Lift(SUndef)
       THEN FieldValue(v) ELSE v
C8_SensitiveEnv ==
    \A o \in Ops : EnvComputed(o) =>
        \A k \in DOMAIN variables :
            /\ ("TF_VAR_" \o k) \in DOMAIN ops[o].envVars <=> Declared(k)
            /\ Declared(k) =>
                  ops[o].envVars["TF_VAR_" \o k] =
                     IF Submitted(k) \in {Lift(SNull), Lift(SUndef), Lift(SStr(""))}
                     THEN Lift(SStr("")) ELSE Submitted(k)
C8_Witness ==
    \E o \in Ops, j, k \in DOMAIN variables :
        /\ EnvComputed(o)
        /\ Declared(j) /\ variables[j] = Lift(SNull)
        /\ ops[o].envVars["TF_VAR_" \o j] = Lift(SStr(""))
        /\ Declared(k) /\ variables[k].k = "wrap"
        /\ ops[o].envVars["TF_VAR_" \o k] = Lift(SStr("hunter2"))

\* C9: the terraform.tfvars a deploy request writes has exactly one line
\* beginning with `name = ` for every submitted variable that is not
\* sensitive, whatever its value: false, 0, '' and null included.
NotSensitive(k) == ~Declared(k) /\ FieldSensitive(variables[k]) # Lift(SBool(TRUE))
C9_OneEntryPerVariable ==
    \A o \in Ops : TfvarsWritten(o) =>
        \A k \in DOMAIN variables :
            NotSensitive(k) => Len(LinesOf(Tfvars(o), k)) = 1

\* C10: the deployment-log events the handler has emitted when it answers are
\* the same whatever value was submitted for a variable declared sensitive:
\* they are the events of the run with any other value in its place.
ServerMessages(o) ==
    LET evs == SelectSeq(EventsOf(o), LAMBDA e : e.origin = "server")
    IN [i \in 1..Len(evs) |-> evs[i].message]
\* The messages of the handler's last batch, for a request with these
\* variables in place of the submitted ones.
LastBatch(o, vs) ==
    MonolithMessages(vs, terraformVariables,
                     extractSensitiveEnvVars(vs, terraformVariables, processEnv),
                     processEnv, NeedsBackendConfig(ops[o].envVars))
C10_NamesOnly ==
    \A o \in Ops : Accepted(o) /\ build = "monolith" /\ ops[o].pc = "init" =>
        \A k \in DOMAIN variables, other \in SubmittedValues :
            Declared(k) =>
                ServerMessages(o) = LastBatch(o, [variables EXCEPT ![k] = other])

\* ------------------------------------------------------- terraform parser

\* The result of an optional capture: <<>> when the pattern did not match
\* (or the group is undefined), <<text>> when it did.
NoMatch == <<>>
Matched(text) == <<text>>

\* s.endsWith(p)
EndsWith(s, p) == Len(s) >= Len(p) /\ SubSeq(s, Len(s) - Len(p) + 1, Len(s)) = p
\* s.slice(1, -1)
Slice1(s) == SubSeq(s, 2, Len(s) - 1)

Digits == "0123456789"
DigitValue(c) == CHOOSE d \in 0..9 : SubSeq(Digits, d + 1, d + 1) = c
IsDigits(s) ==
    Len(s) > 0 /\ \A i \in 1..Len(s) : \E d \in 1..Len(Digits) :
                      SubSeq(s, i, i) = SubSeq(Digits, d, d)
\* !isNaN(Number(s)), for text that is empty or a decimal integer literal;
\* Number('') is 0.
IsNumeric(s) ==
    \/ s = ""
    \/ IsDigits(s)
    \/ Len(s) > 1 /\ SubSeq(s, 1, 1) = "-" /\ IsDigits(SubSeq(s, 2, Len(s)))
RECURSIVE DigitsToNumber(_)
DigitsToNumber(s) ==
    IF s = "" THEN 0
    ELSE 10 * DigitsToNumber(SubSeq(s, 1, Len(s) - 1))
         + DigitValue(SubSeq(s, Len(s), Len(s)))
\* Number(s) of such text.
ToNumber(s) ==
    IF StartsWith(s, "-") THEN 0 - DigitsToNumber(SubSeq(s, 2, Len(s)))
    ELSE DigitsToNumber(s)

LowerCase == "abcdefghijklmnopqrstuvwxyz"
UpperCase == "ABCDEFGHIJKLMNOPQRSTUVWXYZ"
\* s.toLowerCase()
RECURSIVE ToLowerCase(_)
ToLowerCase(s) ==
    IF s = "" THEN ""
    ELSE LET c == SubSeq(s, 1, 1)
             up == {i \in 1..Len(UpperCase) : SubSeq(UpperCase, i, i) = c}
         IN (IF up = {} THEN c
             ELSE LET i == CHOOSE j \in up : TRUE IN SubSeq(LowerCase, i, i))
            \o ToLowerCase(SubSeq(s, 2, Len(s)))

\* variable.default of parseTerraformVariables from the text the default
\* pattern captured.
CoerceDefault(defaultValue) ==
    CASE defaultValue = "null" -> SNull
      [] defaultValue \in {"true", "false"} -> SBool(defaultValue = "true")
      [] StartsWith(defaultValue, "\"") /\ EndsWith(defaultValue, "\"") ->
           SStr(Slice1(defaultValue))
      [] StartsWith(defaultValue, "'") /\ EndsWith(defaultValue, "'") ->
           SStr(Slice1(defaultValue))
      [] IsNumeric(defaultValue) -> SNum(ToNumber(defaultValue))
      [] OTHER -> SStr(defaultValue)

\* displayType of parseTerraformVariables.
DisplayType(type) ==
    IF type \in {"bool", "boolean"} THEN "boolean"
    ELSE IF type = "number" THEN "number"
    ELSE IF HasSubstring(type, "list") \/ HasSubstring(type, "set") THEN "array"
    ELSE IF HasSubstring(type, "map") \/ HasSubstring(type, "object") THEN "object"
    ELSE "string"

\* The `variable` object of one matched block: the defaults, overwritten by
\* the fields whose pattern matched in the block.
BlockVariable(block) ==
    [type |-> IF block.type = NoMatch THEN "string" ELSE Trim(block.type[1]),
     description |-> IF block.description = NoMatch THEN ""
                     ELSE block.description[1],
     default |-> IF block.default = NoMatch THEN SNull
                 ELSE CoerceDefault(Trim(block.default[1])),
     sensitive |-> IF block.sensitive = NoMatch THEN FALSE
                   ELSE block.sensitive[1] = "true",
     nullable |-> IF block.nullable = NoMatch THEN TRUE
                  ELSE block.nullable[1] = "true"]

\* A flag that looks at the default only.
Required_NoDefault(variable) == variable.default = SNull

\* `variable.default === null && !variable.nullable`
Required(variable) == variable.default = SNull /\ ~variable.nullable

\* variables[variableName] of parseTerraformVariables.
TerraformRecord(block, fileName) ==
    LET variable == BlockVariable(block)
    IN [value |-> variable.default,
        type |-> DisplayType(variable.type),
        original |-> variable.default,
        description |-> variable.description,
        source |-> "terraform",
        file |-> fileName,
        terraformType |-> variable.type,
        sensitive |-> SBool(variable.sensitive),
        nullable |-> SBool(variable.nullable),
        required |-> SBool(Required(variable))]

\* parseTerraformVariables(content, fileName), content being the variable
\* blocks the block pattern matches in the file, in order: a later block of
\* the same name is assigned over an earlier one.
parseTerraformVariables(content, fileName) ==
    [name \in {content[i].name : i \in 1..Len(content)} |->
       LET last == CHOOSE i \in 1..Len(content) :
                      /\ content[i].name = name
                      /\ \A j \in (i + 1)..Len(content) : content[j].name # name
       IN TerraformRecord(content[last], fileName)]

\* The names every JavaScript object inherits from Object.prototype: obj[name]
\* is a function, which is truthy, although obj has no such key of its own.
ObjectPrototype ==
    {"constructor", "toString", "valueOf", "hasOwnProperty", "isPrototypeOf",
     "propertyIsEnumerable", "toLocaleString"}
\* obj[key] is truthy, for an object whose own values are objects.
HasTruthy(obj, key) == key \in DOMAIN obj \/ key \in ObjectPrototype

\* value.trim().replace(/^["']|["']$/g, '')
StripQuotes(text) ==
    LET a == IF Len(text) > 0 /\ SubSeq(text, 1, 1) \in {"\"", "'"}
             THEN SubSeq(text, 2, Len(text)) ELSE text
    IN IF Len(a) > 0 /\ SubSeq(a, Len(a), Len(a)) \in {"\"", "'"}
       THEN SubSeq(a, 1, Len(a) - 1) ELSE a

\* parseDefaultValue(value), value an optional capture.
parseDefaultValue(value) ==
    IF value = NoMatch \/ value[1] = "" \/ Trim(value[1]) \in {"", "-"}
    THEN SStr("")
    ELSE LET trimmed == StripQuotes(Trim(value[1]))
         IN IF trimmed \in {"true", "false"} THEN SBool(trimmed = "true")
            ELSE IF IsNumeric(trimmed) /\ trimmed # "" THEN SNum(ToNumber(trimmed))
            ELSE SStr(trimmed)

\* inferType(typeHint, defaultValue)
inferType(typeHint, defaultValue) ==
    LET hint == Trim(ToLowerCase(typeHint))
    IN IF typeHint # "" /\ HasSubstring(hint, "bool") THEN "boolean"
       ELSE IF typeHint # ""
               /\ (HasSubstring(hint, "number") \/ HasSubstring(hint, "int"))
       THEN "number"
       ELSE IF typeHint # "" /\ HasSubstring(hint, "string") THEN "string"
       ELSE IF defaultValue # NoMatch /\ defaultValue[1] # ""
       THEN TypeOf(parseDefaultValue(defaultValue))
       ELSE "string"

\* The record of one match of a README pattern. The table pattern captures
\* its default always and stores it as it is; the other two store '' for a
\* default that is absent.
ReadmeRecord(entry) ==
    [value |-> parseDefaultValue(entry.default),
     type |-> inferType(IF entry.pattern = "table" THEN entry.type ELSE "",
                        entry.default),
     description |-> Trim(entry.description),
     source |-> "readme",
     original |-> IF entry.default = NoMatch
                  THEN (IF entry.pattern = "table" THEN SUndef ELSE SStr(""))
                  ELSE SStr(entry.default[1])]

\* One while loop of parseReadmeForVariables over the matches of a pattern.
RECURSIVE ReadmePass(_, _, _)
ReadmePass(found, entries, pattern) ==
    IF entries = <<>> THEN found
    ELSE LET entry == Head(entries)
             name == entry.name
             take ==
                 /\ entry.pattern = pattern
                 /\ IF pattern = "table"
                    THEN name # "" /\ ~HasSubstring(ToLowerCase(name), "variable")
                    ELSE ~HasTruthy(found, name)
         IN ReadmePass(IF take
                       THEN Spread(found, [n \in {name} |-> ReadmeRecord(entry)])
                       ELSE found,
                       Tail(entries), pattern)

\* parseReadmeForVariables(content), content being the matches of the three
\* patterns in the text, in order of position.
parseReadmeForVariables(content) ==
    ReadmePass(ReadmePass(ReadmePass(EmptyMap, content, "table"), content, "bullet"),
               content, "colon")

\* A merge that prefers the description of the documentation.
MergedDeclared_ReadmeFirst(terraformVar, readmeVars, key) ==
    LET enhance == key \in DOMAIN readmeVars /\ readmeVars[key].description # ""
    IN [f \in DOMAIN terraformVar \cup {"sources"} |->
          IF f = "sources"
          THEN (IF enhance THEN <<"terraform", "readme">> ELSE <<"terraform">>)
          ELSE IF f = "description" /\ enhance THEN readmeVars[key].description
          ELSE terraformVar[f]]

\* A merge that spreads the documentation record over the declaration.
MergedDeclared_ReadmeSpread(terraformVar, readmeVars, key) ==
    LET enhance == /\ key \in DOMAIN readmeVars
                   /\ readmeVars[key].description # ""
                   /\ terraformVar.description = ""
    IN [f \in DOMAIN terraformVar \cup {"sources"} |->
          IF f = "sources"
          THEN (IF enhance THEN <<"terraform", "readme">> ELSE <<"terraform">>)
          ELSE IF enhance /\ f \in DOMAIN readmeVars[key] /\ f # "source"
          THEN readmeVars[key][f]
          ELSE terraformVar[f]]

\* merged[key] of the first loop of mergeAllVariables.
MergedDeclared(terraformVar, readmeVars, key) ==
    LET enhance == /\ key \in DOMAIN readmeVars
                   /\ readmeVars[key].description # ""
                   /\ terraformVar.description = ""
    IN [f \in DOMAIN terraformVar \cup {"sources"} |->
          IF f = "sources"
          THEN (IF enhance THEN <<"terraform", "readme">> ELSE <<"terraform">>)
          ELSE IF f = "description" /\ enhance
          THEN readmeVars[key].description
          ELSE terraformVar[f]]

\* merged[key] of the last loop: a documentation-only variable.
MergedReadmeOnly(readmeVar) ==
    [f \in DOMAIN readmeVar \cup {"sources", "required"} |->
       IF f = "sources" THEN <<"readme">>
       ELSE IF f = "required" THEN SBool(FALSE)
       ELSE readmeVar[f]]

\* `if (!merged[key])` of the last loop, merged holding the declared names.
AddsReadmeOnly(tfVariables, key) == ~HasTruthy(tfVariables, key)

\* mergeAllVariables(terraformVariables, tfvarsVariables, readmeVariables):
\* tfvarsVariables is not read.
mergeAllVariables(tfVariables, tfvarsVars, readmeVars) ==
    LET readmeOnly == {key \in DOMAIN readmeVars :
                          AddsReadmeOnly(tfVariables, key)}
    IN [key \in DOMAIN tfVariables \cup readmeOnly |->
          IF key \in DOMAIN tfVariables
          THEN MergedDeclared(tfVariables[key], readmeVars, key)
          ELSE MergedReadmeOnly(readmeVars[key])]

\* --------------------------------------------------------- github service

\* text.split(sep), sep one character
RECURSIVE Split(_, _)
Split(text, sep) ==
    IF ~Includes(text, sep) THEN <<text>>
    ELSE LET i == CHOOSE j \in 1..Len(text) :
                    SubSeq(text, j, j) = sep
                    /\ \A m \in 1..(j - 1) : SubSeq(text, m, m) # sep
         IN <<SubSeq(text, 1, i - 1)>> \o Split(SubSeq(text, i + 1, Len(text)), sep)

\* urlPattern matches with `github.com/` at position i: owner, repo, the
\* word tree, branch, each without a slash and not empty, then a path of at
\* least one character.
UrlMatchAt(repoUrl, i) ==
    LET host == "github.com/"
        parts == Split(SubSeq(repoUrl, i + Len(host), Len(repoUrl)), "/")
    IN /\ i + Len(host) - 1 <= Len(repoUrl)
       /\ SubSeq(repoUrl, i, i + Len(host) - 1) = host
       /\ Len(parts) >= 5
       /\ parts[1] # "" /\ parts[2] # "" /\ parts[3] = "tree" /\ parts[4] # ""
       /\ Join(SubSeq(parts, 5, Len(parts)), "/") # ""

\* A URL accepted by anything that names github.com.
MatchesUrl_AnyGithub(repoUrl) == HasSubstring(repoUrl, "github.com/")

\* repoUrl.match(urlPattern) is not null
MatchesUrl(repoUrl) == \E i \in 1..Len(repoUrl) : UrlMatchAt(repoUrl, i)

\* file.name.endsWith('.tf')
IsTerraformFile(file) == EndsWith(file.name, ".tf")
\* /^readme\.(md|txt)$/i.test(file.name)
IsReadme(file) == ToLowerCase(file.name) \in {"readme.md", "readme.txt"}
terraformFiles(listing) == SelectSeq(listing, IsTerraformFile)
\* files.find(...): <<>> or the first README of the listing
readmeFile(listing) ==
    LET rs == SelectSeq(listing, IsReadme)
    IN IF rs = <<>> THEN <<>> ELSE <<rs[1]>>

\* The response to a locator that does not match: the single-file server
\* answers 400 itself, the modular server's catch answers 500.
MalformedResponse(b) ==
    IF b = "monolith" THEN [status |-> 400, error |-> "Invalid GitHub URL format"]
    ELSE [status |-> 500, error |-> "Failed to parse GitHub repository"]
\* The response to a listing without .tf files.
NoTerraformResponse(b) ==
    IF b = "monolith"
    THEN [status |-> 404, error |-> "No .tf files found in the repository"]
    ELSE [status |-> 500, error |-> "Failed to parse GitHub repository"]

\* An accumulator shared by the requests: the one of the first request.
Accumulator_Shared(o) == ops[1].terraformVariables
\* `let terraformVariables = {}`: the accumulator of this call.
Accumulator(o) == ops[o].terraformVariables

\* A merge that keeps the record of the file fetched first.
MergeFile_FirstWins(acc, fileVariables) == Spread(fileVariables, acc)
\* `{ ...terraformVariables, ...fileVariables }`
MergeFile(acc, fileVariables) == Spread(acc, fileVariables)

\* A catch block that starts over.
OnFetchError_Reset(acc) == EmptyMap
\* The catch block of a .tf download: the accumulator is left as it is.
OnFetchError(acc) == acc

\* The op when the handler ends with an error response.
ParseFailed(op, response) ==
    [op EXCEPT !.pc = "failed", !.status = response.status,
               !.error = response.error]

\* The rest of parseGitHubRepository once the .tf loop is over: the README
\* request if the listing has one, the merge and the response otherwise.
AfterTerraformFiles(op) ==
    IF readmeFile(op.files) # <<>>
    THEN [op EXCEPT !.pc = "readme",
                    !.requests = @ \o <<readmeFile(op.files)[1].name>>]
    ELSE [op EXCEPT !.pc = "parsed", !.status = 200,
                    !.variables = mergeAllVariables(op.terraformVariables,
                                                    op.tfvarsVariables,
                                                    op.readmeVariables)]

\* The merge and the response that end parseGitHubRepository.
Respond(op) ==
    [op EXCEPT !.pc = "parsed", !.status = 200,
               !.variables = mergeAllVariables(op.terraformVariables,
                                               op.tfvarsVariables,
                                               op.readmeVariables)]

NotParsing ==
    UNCHANGED <<build, variables, terraformVariables, processEnv, dirs, files,
                channel, sockets, rooms, inbox, joinedAt, crashed>>

\* POST /api/parse-github-url up to its first await: the locator is matched
\* and the directory listing is requested.
ParseRequest(o, repoUrl) ==
    /\ ~crashed
    /\ ops[o].pc = "idle"
    /\ ops' = [ops EXCEPT ![o] =
                 IF MatchesUrl(repoUrl)
                 THEN [@ EXCEPT !.kind = "parse", !.pc = "listing",
                                !.repoUrl = repoUrl, !.requests = <<"contents">>]
                 ELSE ParseFailed([@ EXCEPT !.kind = "parse", !.repoUrl = repoUrl],
                                  MalformedResponse(build))]
    /\ NotParsing

\* fetchRepositoryContents settles: the .tf files are selected and the first
\* one is requested.
ListingDone(o, ok, listing) ==
    /\ ~crashed
    /\ ops[o].kind = "parse" /\ ops[o].pc = "listing"
    /\ ops' = [ops EXCEPT ![o] =
                 IF ~ok
                 THEN ParseFailed(@, [status |-> 500,
                                      error |-> "Failed to parse GitHub repository"])
                 ELSE IF terraformFiles(listing) = <<>>
                 THEN ParseFailed([@ EXCEPT !.files = listing,
                                            !.fetched = <<"contents">>],
                                  NoTerraformResponse(build))
                 ELSE [@ EXCEPT !.pc = "tf", !.files = listing, !.next = 1,
                                !.fetched = <<"contents">>,
                                !.requests =
                                   @ \o <<terraformFiles(listing)[1].name>>]]
    /\ NotParsing

\* The download of a .tf file settles: its variables are merged in, or the
\* file is skipped; then the next request is sent or the operation ends.
TfFetched(o, ok) ==
    /\ ~crashed
    /\ ops[o].kind = "parse" /\ ops[o].pc = "tf"
    /\ LET tfs == terraformFiles(ops[o].files)
           tfFile == tfs[ops[o].next]
           merged ==
               IF ok
               THEN MergeFile(Accumulator(o),
                              parseTerraformVariables(tfFile.content, tfFile.name))
               ELSE OnFetchError(Accumulator(o))
           op == [ops[o] EXCEPT !.terraformVariables = merged,
                                !.fetched = IF ok THEN @ \o <<tfFile.name>> ELSE @,
                                !.next = @ + 1]
       IN ops' = [ops EXCEPT ![o] =
                    IF ops[o].next < Len(tfs)
                    THEN [op EXCEPT !.requests = @ \o <<tfs[op.next].name>>]
                    ELSE AfterTerraformFiles(op)]
    /\ NotParsing

\* The download of the README settles.
ReadmeFetched(o, ok) ==
    /\ ~crashed
    /\ ops[o].kind = "parse" /\ ops[o].pc = "readme"
    /\ LET readme == readmeFile(ops[o].files)[1]
       IN ops' = [ops EXCEPT ![o] =
                    Respond([@ EXCEPT
                               !.readmeVariables =
                                  IF ok THEN parseReadmeForVariables(readme.content)
                                  ELSE @,
                               !.fetched = IF ok THEN @ \o <<readme.name>> ELSE @])]
    /\ NotParsing

\* Remote repositories. A file of a listing carries the content a download
\* of it returns: the blocks of a .tf file, the pattern matches of a README.
Block(name, type, description, default, sensitive, nullable) ==
    [name |-> name, type |-> type, description |-> description,
     default |-> default, sensitive |-> sensitive, nullable |-> nullable]
Entry(pattern, name, description, type, default) ==
    [pattern |-> pattern, name |-> name, description |-> description,
     type |-> type, default |-> default]
File(name, content) == [name |-> name, content |-> content]

MainTf ==
    File("main.tf",
         <<Block("region", NoMatch, NoMatch, Matched("\"eu\""), NoMatch, NoMatch),
           Block("db_password", Matched("string"), Matched("Database password"),
                 NoMatch, Matched("true"), Matched("false"))>>)
VariablesTf ==
    File("variables.tf",
         <<Block("region", Matched("number"), Matched("Region"), Matched("3"),
                 NoMatch, NoMatch)>>)
ReadmeMd ==
    File("README.md",
         <<Entry("table", "Variable", " Description ", " Type ", Matched(" Default ")),
           Entry("table", "region", " AWS region ", " string ", Matched(" \"eu\" ")),
           Entry("bullet", "zone", "Availability zone ", "", Matched("1")),
           Entry("colon", "region", "ignored ", "", NoMatch)>>)
ReadmeTxt == File("Readme.TXT", <<Entry("bullet", "zone", "Zone ", "", NoMatch)>>)
NotesTxt == File("notes.txt", <<>>)

Listings ==
    {<<>>, <<NotesTxt, ReadmeMd>>, <<MainTf>>, <<MainTf, VariablesTf, ReadmeMd>>,
     <<VariablesTf, NotesTxt, MainTf>>, <<ReadmeTxt, VariablesTf, ReadmeMd>>}

RepoUrls ==
    {"https://github.com/acme/infra/tree/main/aws/ec2",
     "github.com/a/b/tree/c/d",
     "https://github.com/acme/infra",
     "https://github.com/acme/infra/tree/main",
     "https://github.com/acme/infra/tree/main/",
     "https://github.com/acme//tree/main/aws",
     "https://gitlab.com/acme/infra/tree/main/aws",
     ""}

Parsing(o) ==
    \/ \E repoUrl \in RepoUrls : ParseRequest(o, repoUrl)
    \/ \E ok \in BOOLEAN, listing \in Listings : ListingDone(o, ok, listing)
    \/ \E ok \in BOOLEAN : TfFetched(o, ok)
    \/ \E ok \in BOOLEAN : ReadmeFetched(o, ok)

NextParse == \E o \in Ops : Parsing(o)

InitParse ==
    \E b \in Builds : InitWith(b, SampleVariables, SampleDeclarations, EmptyMap)

SpecParse == InitParse /\ [][NextParse]_vars

\* ------------------------------------------------- claims about parsing

\* The locators of RepoUrls that have the owner/repo/tree/branch/path shape.
WellFormedUrls ==
    {"https://github.com/acme/infra/tree/main/aws/ec2", "github.com/a/b/tree/c/d"}
ParseEnded(o) == ops[o].kind = "parse" /\ ops[o].pc \in {"failed", "parsed"}
ListingFetched(o) == ops[o].fetched # <<>>
\* The files of the listing that were downloaded, in listing order.
FetchedFiles(o) ==
    SelectSeq(ops[o].files,
              LAMBDA f : \E i \in 1..Len(ops[o].fetched) : ops[o].fetched[i] = f.name)
FetchedTf(o) == SelectSeq(FetchedFiles(o), LAMBDA f : EndsWith(f.name, ".tf"))

\* C11: a parse request that fails tells its caller which of three
\* conditions it met: 400 'Invalid GitHub URL format' for a locator without
\* the shape, 404 'No .tf files found in the repository' for a listing
\* without .tf files, 500 'Failed to parse GitHub repository' otherwise.
C11_ThreeConditions ==
    \A o \in Ops : ops[o].kind = "parse" /\ ops[o].pc = "failed" =>
        IF ops[o].repoUrl \notin WellFormedUrls
        THEN ops[o].status = 400 /\ ops[o].error = "Invalid GitHub URL format"
        ELSE IF ListingFetched(o)
        THEN /\ ops[o].status = 404
             /\ ops[o].error = "No .tf files found in the repository"
        ELSE /\ ops[o].status = 500
             /\ ops[o].error = "Failed to parse GitHub repository"

\* C12: a parse request whose locator has not the shape has failed without
\* a request to the remote API: no listing, no download.
C12_NoRequestForMalformed ==
    \A o \in Ops : ops[o].kind = "parse" /\ ops[o].repoUrl \notin WellFormedUrls =>
        ops[o].pc = "failed" /\ ops[o].requests = <<>> /\ ops[o].fetched = <<>>
C12_Witness ==
    \E o, p \in Ops :
        /\ ops[o].kind = "parse" /\ ops[o].pc = "failed"
        /\ ops[o].repoUrl = "https://github.com/acme/infra/tree/main"
        /\ ops[p].kind = "parse" /\ Len(ops[p].requests) > 1

\* C13: once the listing has been fetched and has a .tf file, the request
\* does not fail whatever downloads fail: it ends with 200, its declaration
\* map is made of the .tf files that were downloaded and of nothing else,
\* and its documentation map is empty when the README was not downloaded.
RECURSIVE DeclaredIn(_)
DeclaredIn(tfFiles) ==
    IF tfFiles = <<>> THEN EmptyMap
    ELSE LET f == tfFiles[Len(tfFiles)]
             before == DeclaredIn(SubSeq(tfFiles, 1, Len(tfFiles) - 1))
             here == parseTerraformVariables(f.content, f.name)
         IN [n \in DOMAIN before \cup DOMAIN here |->
               IF n \in DOMAIN here THEN here[n] ELSE before[n]]
HasTf(o) == \E i \in 1..Len(ops[o].files) : EndsWith(ops[o].files[i].name, ".tf")
ReadmeDownloaded(o) ==
    \E i \in 1..Len(FetchedFiles(o)) : ~EndsWith(FetchedFiles(o)[i].name, ".tf")
C13_PartialFetch ==
    \A o \in Ops : ops[o].kind = "parse" /\ ListingFetched(o) /\ HasTf(o) =>
        /\ ops[o].pc # "failed"
        /\ ops[o].pc = "parsed" =>
              /\ ops[o].status = 200
              /\ ops[o].terraformVariables = DeclaredIn(FetchedTf(o))
              /\ ~ReadmeDownloaded(o) => ops[o].readmeVariables = EmptyMap
C13_Witness ==
    \E o \in Ops :
        /\ ops[o].pc = "parsed"
        /\ ops[o].fetched = <<"contents", "main.tf">>
        /\ Len(ops[o].requests) > Len(ops[o].fetched) + 1
        /\ DOMAIN ops[o].terraformVariables = {"region", "db_password"}

\* C14: a name declared in several downloaded .tf files has the record of
\* the file that is last in the listing, whole: every field is that file's,
\* and `file` names it.
Declares(f, name) == \E i \in 1..Len(f.content) : f.content[i].name = name
Declaring(o, name) == SelectSeq(FetchedTf(o), LAMBDA f : Declares(f, name))
C14_LastFileWins ==
    \A o \in Ops : ops[o].kind = "parse" /\ ops[o].pc = "parsed" =>
        \A name \in DOMAIN ops[o].terraformVariables :
            LET last == Last(Declaring(o, name))
            IN /\ ops[o].terraformVariables[name]
                     = parseTerraformVariables(last.content, last.name)[name]
               /\ ops[o].terraformVariables[name].file = last.name
C14_Witness ==
    \E o \in Ops :
        /\ ops[o].pc = "parsed"
        /\ Len(Declaring(o, "region")) = 2
        /\ ops[o].terraformVariables["region"].file = "main.tf"
        /\ ops[o].terraformVariables["region"].description = ""

\* C15: the response of a parse request is the one it gives when it runs
\* alone on the contents it downloaded, whatever another request does in
\* between: the merged map and the three extractor maps.
Alone(o) ==
    LET tf == DeclaredIn(FetchedTf(o))
        docs == SelectSeq(FetchedFiles(o), LAMBDA f : ~EndsWith(f.name, ".tf"))
        readme == IF docs = <<>> THEN EmptyMap
                  ELSE parseReadmeForVariables(docs[1].content)
    IN [variables |-> mergeAllVariables(tf, EmptyMap, readme),
        terraformVariables |-> tf, tfvarsVariables |-> EmptyMap,
        readmeVariables |-> readme]
C15_NoCrossContamination ==
    \A o \in Ops : ops[o].kind = "parse" /\ ops[o].pc = "parsed" =>
        \A f \in DOMAIN Alone(o) : ops[o][f] = Alone(o)[f]
C15_Witness ==
    \E o, p \in Ops :
        /\ o # p /\ ops[o].pc = "parsed" /\ ops[p].pc = "parsed"
        /\ DOMAIN ops[o].terraformVariables = {"region", "db_password"}
        /\ DOMAIN ops[p].terraformVariables = {"region"}
        /\ DOMAIN ops[p].readmeVariables = {"region", "zone"}
        /\ ops[o].files # ops[p].files

\* ------------------------------------------ the parser functions, called

\* parsedValue of parseTfvarsContent: the quotes at the ends removed, then
\* booleans and numbers coerced.
TfvarsValue(value) ==
    LET a == IF StartsWith(value, "\"") THEN SubSeq(value, 2, Len(value)) ELSE value
        b == IF EndsWith(a, "\"") THEN SubSeq(a, 1, Len(a) - 1) ELSE a
        c == IF StartsWith(b, "'") THEN SubSeq(b, 2, Len(b)) ELSE b
        parsedValue == IF EndsWith(c, "'") THEN SubSeq(c, 1, Len(c) - 1) ELSE c
    IN IF parsedValue \in {"true", "false"} THEN SBool(parsedValue = "true")
       ELSE IF IsNumeric(parsedValue) /\ parsedValue # ""
       THEN SNum(ToNumber(parsedValue))
       ELSE SStr(parsedValue)

\* parseTfvarsContent(content), content being the `key = value` lines the
\* line pattern matches, in order.
parseTfvarsContent(content) ==
    [key \in {content[i].key : i \in 1..Len(content)} |->
       LET last == CHOOSE i \in 1..Len(content) :
                      /\ content[i].key = key
                      /\ \A j \in (i + 1)..Len(content) : content[j].key # key
           parsedValue == TfvarsValue(content[last].value)
       IN [value |-> parsedValue, type |-> TypeOf(parsedValue),
           original |-> SStr(content[last].value), source |-> "tfvars"]]

\* The inputs of the calls.
BlocksOf(name) ==
    {Block(name, type, description, default, sensitive, nullable) :
       type \in {NoMatch, Matched("number"), Matched("list(string)")},
       description \in {NoMatch, Matched("Declared")},
       default \in {NoMatch, Matched("null"), Matched("\"eu\""), Matched("3"),
                    Matched("true")},
       sensitive \in {NoMatch, Matched("true")},
       nullable \in {NoMatch, Matched("false"), Matched("true")}}
PlainBlocksOf(name) ==
    {b \in BlocksOf(name) :
       b.type = NoMatch /\ b.description = NoMatch /\ b.sensitive = NoMatch
       /\ b.default \in {NoMatch, Matched("\"eu\""), Matched("null")}}
TfContents ==
    {<<>>} \cup {<<b>> : b \in BlocksOf("region")}
           \cup {<<b>> : b \in PlainBlocksOf("constructor")}
           \cup {<<b, c>> : b \in PlainBlocksOf("region"), c \in PlainBlocksOf("zone")}
ReadmeContents ==
    {<<>>, ReadmeMd.content, ReadmeTxt.content,
     <<Entry("table", "region", " ", " number ", Matched(" - ")),
       Entry("colon", "zone", "Zone of the region ", "", Matched("'a'"))>>,
     <<Entry("table", "constructor", " Builds it ", " bool ", Matched(" true ")),
       Entry("bullet", "region", "Region to deploy to ", "", NoMatch)>>}
TfvarsContents ==
    {<<>>, <<[key |-> "region", value |-> "\"us\""]>>,
     <<[key |-> "zone", value |-> "2"], [key |-> "region", value |-> "true"],
       [key |-> "extra", value |-> "'x'"]>>}

\* A call of parseTerraformVariables(content, fileName).
CallParseTerraformVariables(o, content, fileName) ==
    /\ ops[o].pc = "idle"
    /\ ops' = [ops EXCEPT ![o] =
                 [@ EXCEPT !.kind = "parseTerraformVariables", !.pc = "returned",
                           !.files = <<File(fileName, content)>>,
                           !.terraformVariables =
                              parseTerraformVariables(content, fileName)]]
    /\ NotParsing

\* A call of mergeAllVariables on the results of the three extractors.
CallMergeAllVariables(o, tfContent, tfvarsContent, readmeContent) ==
    /\ ops[o].pc = "idle"
    /\ LET tf == parseTerraformVariables(tfContent, "main.tf")
           tfvars == parseTfvarsContent(tfvarsContent)
           readme == parseReadmeForVariables(readmeContent)
       IN ops' = [ops EXCEPT ![o] =
                    [@ EXCEPT !.kind = "mergeAllVariables", !.pc = "returned",
                              !.terraformVariables = tf,
                              !.tfvarsVariables = tfvars,
                              !.readmeVariables = readme,
                              !.variables = mergeAllVariables(tf, tfvars, readme)]]
    /\ NotParsing

\* The position of the first occurrence of word in text at or after from,
\* 0 when there is none.
IndexFrom(text, word, from) ==
    LET found == {i \in from..(Len(text) - Len(word) + 1) :
                     SubSeq(text, i, i + Len(word) - 1) = word}
    IN IF found = {} THEN 0 ELSE CHOOSE i \in found : \A j \in found : i <= j

\* .replace(/\/\*[\s\S]*?\*\//g, ''): each comment runs from a slash-star to
\* the first star-slash after it, and the search resumes after the comment.
RECURSIVE RemoveBlockComments(_)
RemoveBlockComments(text) ==
    LET open == IndexFrom(text, "/*", 1)
        close == IF open = 0 THEN 0 ELSE IndexFrom(text, "*/", open + 2)
    IN IF close = 0 THEN text
       ELSE SubSeq(text, 1, open - 1)
            \o RemoveBlockComments(SubSeq(text, close + 2, Len(text)))

\* .replace(/\/\/.*$/gm, ''): from two slashes to the end of the line.
RECURSIVE RemoveLineComments(_)
RemoveLineComments(text) ==
    LET open == IndexFrom(text, "//", 1)
        end == IF open = 0 THEN 0 ELSE IndexFrom(text, "\n", open)
    IN IF open = 0 THEN text
       ELSE IF end = 0 THEN SubSeq(text, 1, open - 1)
       ELSE SubSeq(text, 1, open - 1)
            \o RemoveLineComments(SubSeq(text, end, Len(text)))

WhiteSpace == {" ", "\n", "\t"}
\* .replace(/\s+/g, ' ')
RECURSIVE CollapseWhitespace(_)
CollapseWhitespace(text) ==
    IF text = "" THEN ""
    ELSE IF SubSeq(text, 1, 1) \in WhiteSpace
    THEN IF Len(text) > 1 /\ SubSeq(text, 2, 2) \in WhiteSpace
         THEN CollapseWhitespace(SubSeq(text, 2, Len(text)))
         ELSE " " \o CollapseWhitespace(SubSeq(text, 2, Len(text)))
    ELSE SubSeq(text, 1, 1) \o CollapseWhitespace(SubSeq(text, 2, Len(text)))

\* cleanContent of parseTerraformVariables.
CleanContent(content) ==
    Trim(CollapseWhitespace(RemoveLineComments(RemoveBlockComments(content))))

\* The texts of at most n characters of an alphabet.
RECURSIVE TextsUpTo(_, _)
TextsUpTo(alphabet, n) ==
    IF n = 0 THEN {""}
    ELSE LET shorter == TextsUpTo(alphabet, n - 1)
         IN shorter \cup {t \o c : t \in shorter, c \in alphabet}

MaxComment == 8
MaxText == 4
Texts ==
    TextsUpTo({"/", "*"}, MaxComment)
       \cup TextsUpTo({"/", "*", " ", "\n", "a"}, MaxText)
       \cup {"variable \"a\" { } // x\n/* y */ /* z",
             "a /* b\n c */ d // e /* f\n g */ h"}

\* The first statement of parseTerraformVariables(content, fileName).
CallCleanContent(o, text) ==
    /\ ops[o].pc = "idle"
    /\ ops' = [ops EXCEPT ![o] =
                 [@ EXCEPT !.kind = "cleanContent", !.pc = "returned",
                           !.content = text,
                           !.cleanContent = CleanContent(text)]]
    /\ NotParsing

\* The cleaned text of a .tf file as its pieces: `variable "name"`, an opening
\* brace, a closing brace, or an attribute with the text its pattern captures.
Var(name) == [token |-> "variable", name |-> name, text |-> ""]
Open == [token |-> "{", name |-> "", text |-> ""]
Close == [token |-> "}", name |-> "", text |-> ""]
Attr(name, text) == [token |-> "attribute", name |-> name, text |-> text]

\* A body end that accepts braces nested to any depth.
RECURSIVE BodyEnd_AnyDepth(_, _, _)
BodyEnd_AnyDepth(tokens, i, depth) ==
    IF i > Len(tokens) THEN 0
    ELSE IF tokens[i] = Open THEN BodyEnd_AnyDepth(tokens, i + 1, depth + 1)
    ELSE IF tokens[i] = Close
    THEN (IF depth = 0 THEN i ELSE BodyEnd_AnyDepth(tokens, i + 1, depth - 1))
    ELSE BodyEnd_AnyDepth(tokens, i + 1, depth)

\* `([^{}]*(?:\{[^{}]*\}[^{}]*)*)\}` of variableRegex from piece i on, depth
\* being 1 inside a nested pair of braces: the position of the closing brace
\* of the block, 0 when the pattern does not match.
RECURSIVE BodyEnd(_, _, _)
BodyEnd(tokens, i, depth) ==
    IF i > Len(tokens) THEN 0
    ELSE IF tokens[i] = Open
    THEN (IF depth = 0 THEN BodyEnd(tokens, i + 1, 1) ELSE 0)
    ELSE IF tokens[i] = Close
    THEN (IF depth = 0 THEN i ELSE BodyEnd(tokens, i + 1, 0))
    ELSE BodyEnd(tokens, i + 1, depth)

\* The capture of an attribute pattern in blockContent: its first occurrence.
Capture(blockContent, name) ==
    LET found == {i \in 1..Len(blockContent) :
                     blockContent[i].token = "attribute"
                     /\ blockContent[i].name = name}
    IN IF found = {} THEN NoMatch
       ELSE Matched(blockContent[CHOOSE i \in found : \A j \in found : i <= j].text)

\* The loop of variableRegex.exec over the cleaned text, from piece i on: the
\* matches in order, each as the captures of its block.
RECURSIVE VariableMatches(_, _)
VariableMatches(tokens, i) ==
    IF i > Len(tokens) THEN <<>>
    ELSE LET end == IF tokens[i].token = "variable" /\ i < Len(tokens)
                       /\ tokens[i + 1] = Open
                    THEN BodyEnd(tokens, i + 2, 0) ELSE 0
         IN IF end = 0 THEN VariableMatches(tokens, i + 1)
            ELSE LET blockContent == SubSeq(tokens, i + 2, end - 1)
                 IN <<Block(tokens[i].name, Capture(blockContent, "type"),
                            Capture(blockContent, "description"),
                            Capture(blockContent, "default"),
                            Capture(blockContent, "sensitive"),
                            Capture(blockContent, "nullable"))>>
                    \o VariableMatches(tokens, end + 1)

\* Variable blocks without nested braces, with one level and with two.
BlockTexts(name) ==
    {<<Var(name), Open, Close>>,
     <<Var(name), Open, Attr("default", "3"), Attr("nullable", "false"), Close>>,
     <<Var(name), Open, Attr("type", "number"), Open, Attr("default", "\"x\""),
       Close, Attr("sensitive", "true"), Open, Close, Close>>,
     <<Var(name), Open, Attr("default", "3"), Open, Open, Close, Close, Close>>,
     <<Var(name), Open, Open, Attr("type", "number"), Open, Close,
       Attr("nullable", "false"), Close, Attr("default", "true"), Close>>}
TfTexts ==
    {a : a \in BlockTexts("a")}
       \cup {a \o b : a \in BlockTexts("a"), b \in BlockTexts("b")}
       \cup {a \o b \o c : a \in BlockTexts("a"), b \in BlockTexts("b"),
                            c \in BlockTexts("c")}

\* A call of parseTerraformVariables on the text of a file.
CallParseTerraformText(o, tokens, fileName) ==
    /\ ops[o].pc = "idle"
    /\ ops' = [ops EXCEPT ![o] =
                 [@ EXCEPT !.kind = "parseTerraformText", !.pc = "returned",
                           !.files = <<File(fileName, tokens)>>,
                           !.terraformVariables =
                              parseTerraformVariables(VariableMatches(tokens, 1),
                                                      fileName)]]
    /\ NotParsing

\* Documentation texts with level-2 and level-3 headings.
ReadmeInputs ==
    ReadmeContents \cup
    {<<Entry("heading", "region", "", "", NoMatch)>>,
     <<Entry("heading", "zone", "", "", NoMatch),
       Entry("table", "region", " AWS region ", " string ", Matched(" eu ")),
       Entry("bullet", "region", "from the list ", "", Matched("us")),
       Entry("bullet", "zone", "Zone ", "", NoMatch),
       Entry("colon", "zone", "from the colon ", "", Matched("2")),
       Entry("colon", "size", "Size ", "", NoMatch)>>}

\* A call of parseReadmeForVariables(content).
CallParseReadmeForVariables(o, content) ==
    /\ ops[o].pc = "idle"
    /\ ops' = [ops EXCEPT ![o] =
                 [@ EXCEPT !.kind = "parseReadmeForVariables", !.pc = "returned",
                           !.files = <<File("README.md", content)>>,
                           !.readmeVariables = parseReadmeForVariables(content)]]
    /\ NotParsing

NextCalls ==
    \/ \E content \in ReadmeInputs : CallParseReadmeForVariables(1, content)
    \/ \E text \in Texts : CallCleanContent(1, text)
    \/ \E tokens \in TfTexts : CallParseTerraformText(1, tokens, "main.tf")
    \/ \E content \in TfContents, fileName \in {"main.tf"} :
          CallParseTerraformVariables(1, content, fileName)
    \/ \E tfContent \in TfContents, tfvarsContent \in TfvarsContents,
          readmeContent \in ReadmeContents :
          CallMergeAllVariables(1, tfContent, tfvarsContent, readmeContent)

SpecCalls == InitParse /\ [][NextCalls]_vars

\* ------------------------------------------------- claims about the merge

Merged(o) == ops[o].kind = "mergeAllVariables" /\ ops[o].pc = "returned"
Extracted(o) == ops[o].kind = "parseTerraformVariables" /\ ops[o].pc = "returned"
InBoth(o) == DOMAIN ops[o].terraformVariables \cap DOMAIN ops[o].readmeVariables
After(sources, a, b) ==
    \E i, j \in 1..Len(sources) : i < j /\ sources[i] = a /\ sources[j] = b

\* C16: when mergeAllVariables is given a non-empty defaults-file map, every
\* declared name that is also in that map gets the defaults-file value, and
\* its sources have "tfvars" after "terraform".
C16_TfvarsOverride ==
    \A o \in Ops :
       (Merged(o) /\ DOMAIN ops[o].tfvarsVariables # {}) =>
          \A name \in DOMAIN ops[o].terraformVariables
                        \cap DOMAIN ops[o].tfvarsVariables :
             /\ name \in DOMAIN ops[o].variables
             /\ ops[o].variables[name].value = ops[o].tfvarsVariables[name].value
             /\ After(ops[o].variables[name].sources, "terraform", "tfvars")

\* C17: for a name in both the declaration map and the documentation map, an
\* empty declared description and a non-empty documented one give the
\* documented description and sources <<"terraform", "readme">>; a non-empty
\* declared description is kept, with sources <<"terraform">>.
C17_DescriptionPrecedence ==
    \A o \in Ops :
       Merged(o) =>
          \A name \in InBoth(o) :
             LET declared == ops[o].terraformVariables[name]
                 documented == ops[o].readmeVariables[name]
                 merged == ops[o].variables[name]
             IN /\ (declared.description = "" /\ documented.description # "") =>
                      /\ merged.description = documented.description
                      /\ merged.sources = <<"terraform", "readme">>
                /\ declared.description # "" =>
                      /\ merged.description = declared.description
                      /\ merged.sources = <<"terraform">>

C17_Witness ==
    /\ Merged(1)
    /\ \E name \in InBoth(1) :
          /\ ops[1].terraformVariables[name].description = ""
          /\ ops[1].readmeVariables[name].description # ""
          /\ ops[1].variables[name].description
                = ops[1].readmeVariables[name].description
          /\ ops[1].variables[name].sources = <<"terraform", "readme">>

\* C18: the keys of the merged map are exactly the declared names and the
\* documentation names; a name of the documentation alone has sources
\* <<"readme">> and required false; no record's sources are empty or hold a
\* name twice.
C18_UnionOfNames ==
    \A o \in Ops :
       Merged(o) =>
          /\ DOMAIN ops[o].variables
                = DOMAIN ops[o].terraformVariables \cup DOMAIN ops[o].readmeVariables
          /\ \A name \in DOMAIN ops[o].variables :
                LET sources == ops[o].variables[name].sources
                IN /\ sources # <<>>
                   /\ \A i, j \in 1..Len(sources) : sources[i] = sources[j] => i = j
                   /\ name \notin DOMAIN ops[o].terraformVariables =>
                         /\ sources = <<"readme">>
                         /\ ops[o].variables[name].required = SBool(FALSE)

\* C19: for a declared name the merged record has the declaration's value,
\* type, terraformType, sensitive, nullable, required, original and file,
\* whatever the documentation map holds for the name.
C19_DeclarationKept ==
    \A o \in Ops :
       Merged(o) =>
          \A name \in DOMAIN ops[o].terraformVariables :
             /\ name \in DOMAIN ops[o].variables
             /\ \A f \in {"value", "type", "terraformType", "sensitive", "nullable",
                          "required", "original", "file"} :
                   ops[o].variables[name][f] = ops[o].terraformVariables[name][f]

C19_Witness ==
    /\ Merged(1)
    /\ \E name \in InBoth(1) :
          /\ ops[1].readmeVariables[name].type # ops[1].terraformVariables[name].type
          /\ ops[1].readmeVariables[name].value # ops[1].terraformVariables[name].value
          /\ ops[1].variables[name].description
                # ops[1].terraformVariables[name].description
          /\ ops[1].variables[name].type = ops[1].terraformVariables[name].type

\* C20: every record parseTerraformVariables produces has required true
\* exactly when its value is null and its nullable is false.
C20_RequiredFlag ==
    \A o \in Ops :
       Extracted(o) =>
          \A name \in DOMAIN ops[o].terraformVariables :
             LET record == ops[o].terraformVariables[name]
             IN record.required = SBool(TRUE)
                   <=> (record.value = SNull /\ record.nullable = SBool(FALSE))

C20_Witness ==
    /\ Extracted(1)
    /\ \E a, b \in DOMAIN ops[1].terraformVariables :
          /\ ops[1].terraformVariables[a].required = SBool(TRUE)
          /\ ops[1].terraformVariables[a].value = SNull
          /\ ops[1].terraformVariables[b].required = SBool(FALSE)
          /\ ops[1].terraformVariables[b].value # SNull
          /\ ops[1].terraformVariables[b].nullable = SBool(FALSE)

\* The block of content that gives the record of its name: the last one.
Deciding(content, i) ==
    \A j \in (i + 1)..Len(content) : content[j].name # content[i].name

\* C21: every record parseTerraformVariables produces has required true
\* exactly when its block holds no default field at all and declares
\* nullable = false.
C21_RequiredIffNoDefaultField ==
    \A o \in Ops :
       Extracted(o) =>
          LET content == ops[o].files[1].content
          IN \A i \in 1..Len(content) :
                Deciding(content, i) =>
                   (ops[o].terraformVariables[content[i].name].required = SBool(TRUE)
                      <=> (content[i].default = NoMatch
                           /\ content[i].nullable = Matched("false")))

\* The value and the display type a default text stands for: null, a
\* boolean, a number for an integer literal, the text between the quotes.
ExpectedValue(text) ==
    IF text = "null" THEN SNull
    ELSE IF text \in {"true", "false"} THEN SBool(text = "true")
    ELSE IF IsDigits(text) THEN SNum(DigitsToNumber(text))
    ELSE SStr(SubSeq(text, 2, Len(text) - 1))
ExpectedType(text) ==
    IF text \in {"true", "false"} THEN "boolean"
    ELSE IF IsDigits(text) THEN "number"
    ELSE "string"

\* C22: a block whose default is null, true, false, an integer literal or a
\* quoted string gives the coerced value, and a display type that matches it
\* (number, boolean, string), also when the block declares no type.
C22_DefaultCoercion ==
    \A o \in Ops :
       Extracted(o) =>
          LET content == ops[o].files[1].content
          IN \A i \in 1..Len(content) :
                (Deciding(content, i) /\ content[i].default # NoMatch) =>
                   LET text == content[i].default[1]
                       record == ops[o].terraformVariables[content[i].name]
                   IN /\ record.value = ExpectedValue(text)
                      /\ text # "null" => record.type = ExpectedType(text)

\* ------------------------------------------- claims about the extractors

Documented(o) == ops[o].kind = "parseReadmeForVariables" /\ ops[o].pc = "returned"
Rank(pattern) ==
    IF pattern = "table" THEN 1 ELSE IF pattern = "bullet" THEN 2
    ELSE IF pattern = "colon" THEN 3 ELSE 4
\* A match that names a variable: not the header row of a table.
Recognised(entry) ==
    entry.pattern = "table" => ~HasSubstring(ToLowerCase(entry.name), "variable")

\* C23: every name one of the four patterns of parseReadmeForVariables
\* recognises (table row, bullet, colon, heading) is in the output, and its
\* record is one the earliest pattern recognising it produces.
C23_FirstPatternWins ==
    \A o \in Ops :
       Documented(o) =>
          LET content == ops[o].files[1].content
              matches(name) == {i \in 1..Len(content) :
                                   content[i].name = name /\ Recognised(content[i])}
          IN \A i \in 1..Len(content) :
                Recognised(content[i]) =>
                   LET name == content[i].name
                       first == CHOOSE j \in matches(name) :
                                   \A k \in matches(name) :
                                      Rank(content[j].pattern) <= Rank(content[k].pattern)
                   IN /\ name \in DOMAIN ops[o].readmeVariables
                      /\ content[first].pattern # "heading" =>
                            \E j \in matches(name) :
                               /\ content[j].pattern = content[first].pattern
                               /\ ops[o].readmeVariables[name] = ReadmeRecord(content[j])

Cleaned(o) == ops[o].kind = "cleanContent" /\ ops[o].pc = "returned"

\* C25: the normalization of parseTerraformVariables leaves its own output
\* unchanged, for every input text.
C25_NormalizationIdempotent ==
    \A o \in Ops :
       Cleaned(o) => CleanContent(ops[o].cleanContent) = ops[o].cleanContent

Scanned(o) == ops[o].kind = "parseTerraformText" /\ ops[o].pc = "returned"
\* The pieces of the block whose header is at position i: up to the next
\* header or the end of the text.
BlockAt(tokens, i) ==
    LET later == {j \in (i + 1)..Len(tokens) : tokens[j].token = "variable"}
    IN SubSeq(tokens, i,
              IF later = {} THEN Len(tokens)
              ELSE (CHOOSE j \in later : \A k \in later : j <= k) - 1)
\* The number of braces open after the first i pieces.
OpenAfter(tokens, i) ==
    Cardinality({j \in 1..i : tokens[j] = Open})
       - Cardinality({j \in 1..i : tokens[j] = Close})
\* The deepest nesting of braces of the pieces: 1 for a block without nested
\* braces.
Nesting(tokens) ==
    CHOOSE d \in 0..Len(tokens) :
       /\ \E i \in 0..Len(tokens) : OpenAfter(tokens, i) = d
       /\ \A i \in 0..Len(tokens) : OpenAfter(tokens, i) <= d
\* The attributes of the pieces, braces left out.
Attributes(tokens) == SelectSeq(tokens, LAMBDA t : t.token = "attribute")

\* C26: a variable block whose body nests braces two or more levels deep
\* gives no record, and every other block of the file, before or after it,
\* gives its record.
C26_DeepBlockSkipped ==
    \A o \in Ops :
       Scanned(o) =>
          LET tokens == ops[o].files[1].content
              result == ops[o].terraformVariables
          IN \A i \in 1..Len(tokens) :
                tokens[i].token = "variable" =>
                   LET block == BlockAt(tokens, i)
                       name == tokens[i].name
                       body == Attributes(block)
                   IN IF Nesting(block) >= 3
                      THEN name \notin DOMAIN result
                      ELSE /\ name \in DOMAIN result
                           /\ result[name] =
                                 TerraformRecord(
                                    Block(name, Capture(body, "type"),
                                          Capture(body, "description"),
                                          Capture(body, "default"),
                                          Capture(body, "sensitive"),
                                          Capture(body, "nullable")),
                                    ops[o].files[1].name)

C26_Witness ==
    /\ Scanned(1)
    /\ LET tokens == ops[1].files[1].content
       IN \E i, j, k \in 1..Len(tokens) :
             /\ i < j /\ j < k
             /\ tokens[i].token = "variable" /\ tokens[j].token = "variable"
             /\ tokens[k].token = "variable"
             /\ Nesting(BlockAt(tokens, i)) = 2
             /\ Nesting(BlockAt(tokens, j)) >= 3
             /\ Nesting(BlockAt(tokens, k)) = 1
             /\ DOMAIN ops[1].terraformVariables = {tokens[i].name, tokens[k].name}
             /\ ops[1].terraformVariables[tokens[i].name].value # SNull

\* -------------------------------------------- claims about the lifecycle

\* C24: once a deploy request is accepted, terraform.tfvars in its directory
\* holds the content generated from the submitted variables, and a generated
\* backend.tf holds the generated configuration, although the repository
\* directory has files of both names.
C24_GeneratedFilesKept ==
    \A o \in Ops :
       Accepted(o) =>
          /\ files[ops[o].id]["terraform.tfvars"] = generateTfvarsContent(variables)
          /\ NeedsBackendConfig(ops[o].envVars) =>
                files[ops[o].id]["backend.tf"] = BackendConfig(ops[o].envVars)

Destroys(o) == ops[o].kind = "destroy" /\ ops[o].pc \notin {"idle", "access"}

\* C27: a destroy request for an identifier whose deployment directory does
\* not exist is answered 404, spawns no process and emits no event; a destroy
\* process is spawned only for a directory that exists.
C27_DestroyNotFound ==
    \A o \in Ops :
       Destroys(o) =>
          /\ (ops[o].id \notin dirs \/ ops[o].pc = "notfound") =>
                /\ ops[o].status = 404
                /\ ops[o].spawned = <<>>
                /\ EventsOf(o) = <<>>
          /\ ops[o].spawned # <<>> => ops[o].id \in dirs

C27_Witness ==
    \E o, p \in Ops :
       /\ Destroys(o) /\ ops[o].id \notin dirs /\ ops[o].status = 404
       /\ ops[p].kind = "deploy" /\ ops[p].id # ops[o].id /\ ops[p].id \in dirs

\* C28: at most one provisioning process (console test, init, apply or
\* destroy) runs in a deployment directory at any time.
C28_OneProcessPerDirectory ==
    \A o, p \in Ops :
       (o # p /\ Running(o) /\ Running(p)) => ops[o].id # ops[p].id

\* C30: the destroy process of a deployment has every TF_VAR_ entry that the
\* deploy of the same identifier passed to its processes, with the same
\* value.
C30_DestroyEnvironment ==
    \A o, p \in Ops :
       (/\ Accepted(o)
        /\ ops[p].kind = "destroy" /\ ops[p].spawned # <<>>
        /\ ops[p].id = ops[o].id) =>
          \A key \in DOMAIN ops[o].envVars :
             StartsWith(key, "TF_VAR_") =>
                /\ key \in DOMAIN ops[p].envVars
                /\ ops[p].envVars[key] = ops[o].envVars[key]

\* A deploy preparation or a provisioning process of request o is in progress
\* in directory d.
InProgress(o, d) ==
    /\ ops[o].id = d
    /\ \/ ops[o].kind = "deploy" /\ ops[o].pc \in {"download", "writeTfvars", "writeBackend"}
       \/ Running(o)

\* C29: a delete request never removes a deployment directory while a deploy
\* preparation or a provisioning process for its identifier is in progress.
C29_NoDeleteInProgress ==
    [][\A d \in dirs \ dirs' : \A o \in Ops : ~InProgress(o, d)]_vars

====
